---------------------------- MODULE Spec2Model ----------------------------
(***************************************************************************)
(* A model of gavinvogt/type-inference-survey:                             *)
(*   - the type algebra of src/type-inference/constructs.py,               *)
(*   - the equation-list unifier of src/type-inference/type_unification.py,*)
(*   - the Micro-ML equation generator and driver of                       *)
(*     src/type-inference/type_inference.py,                               *)
(*   - Martelli-Montanari Algorithm 3 of                                   *)
(*     src/unification/martelli_algorithm_3.py,                            *)
(*   - Martelli-Montanari Algorithm 2 of                                   *)
(*     src/unification/martelli_algorithm_2.py,                            *)
(*   - Robinson's algorithm of src/unification/robinson_algorithm.py,      *)
(*   - the symbol table of src/type-inference/scope.py,                    *)
(*   - Martelli-Montanari Algorithm 1 of                                   *)
(*     src/unification/martelli_algorithm_1.py, the UnionFind of           *)
(*     src/unification/util.py and Type.type_str of                        *)
(*     src/type-inference/constructs.py on their own.                      *)
(***************************************************************************)
EXTENDS Integers, Sequences, FiniteSets, TLC

VARIABLES
    input,          \* unify: the list of equations as it was passed in
    equations,      \* unify: the local `equations` (the queue)
    substitutions,  \* unify: the local dict `substitutions`, in insertion order
    popped,         \* unify: the pair (t1, t2) popped by the last iteration
    rule,           \* unify: the branch the last iteration took
    status,         \* unify: "idle", "running", "returned", or the exception raised
    program,        \* type_infer_code: the list `asts`
    defIndex,       \* type_infer_code: the position of the for loop in `asts`
    globalScope,    \* type_infer_code: the symbols of `global_scope`, in insertion order
    tvgN,           \* type_infer_code: the counter `tvg._n`
    generated,      \* type_infer: the list gen_type_eqs returned
    printed,        \* type_infer: the lines written by line 463
    inferStatus,    \* type_infer_code: "idle", "generate", "solve", "done", or the exception
    terms,          \* Algorithm 3, unify: the multiset of terms to unify
    U,              \* Algorithm 3, solve_multiequations: the unsolved part
    T,              \* Algorithm 3, solve_multiequations: the solved part
    solveStatus,    \* Algorithm 3: "idle", "running", "returned", or the exception
    U2,             \* Algorithm 2, solve_multiequations: the unsolved part
    T2,             \* Algorithm 2, solve_multiequations: the solved part
    solveStatus2,   \* Algorithm 2: "idle", "running", "returned", or the exception
    termSet,        \* Robinson, unify: the set `terms`
    substitution,   \* Robinson, unify: the dict `substitution`
    robinsonStatus, \* Robinson: "idle", "running", "returned", or the exception
    scopes,         \* the Scope objects made so far, each with _parent and _symbols
    symbolCount,    \* the number of TypeSymbol objects made so far
    scopeCall,      \* the last call of a method of Scope and how it ended
    compactAlg,     \* the algorithm whose compactify is applied, 2 or 3, or 0
    compactInput,   \* the list compactify is first applied to, its objects as they are now
    compacted,      \* what the successive calls of compactify returned
    equations1,     \* Algorithm 1, unify: the set `equations`, as a list of objects
    no_transformation,  \* Algorithm 1, unify: the set `no_transformation`
    status1,        \* Algorithm 1: "idle", "running", "returned", or the exception
    ufParent,       \* UnionFind: the dict _parent
    ufUnioned,      \* UnionFind: the pairs union has been called on
    ufSets,         \* UnionFind: what the last call of get_sets returned
    strType,        \* the type type_str is called on
    strResult       \* the string type_str returned or the exception it raised

unifyVars == <<input, equations, substitutions, popped, rule, status>>

inferVars == <<program, defIndex, globalScope, tvgN, generated, printed, inferStatus>>

alg3Vars == <<terms, U, T, solveStatus>>

alg2Vars == <<U2, T2, solveStatus2>>

robinsonVars == <<termSet, substitution, robinsonStatus>>

scopeVars == <<scopes, symbolCount, scopeCall>>

compactVars == <<compactAlg, compactInput, compacted>>

alg1Vars == <<equations1, no_transformation, status1>>

ufVars == <<ufParent, ufUnioned, ufSets>>

strVars == <<strType, strResult>>

vars == <<unifyVars, inferVars, alg3Vars, alg2Vars, robinsonVars, scopeVars, compactVars,
          alg1Vars, ufVars, strVars>>

-----------------------------------------------------------------------------
(* Bounds of the model.                                                    *)

\* Largest total number of type nodes in a generated list of equations.
MaxSize == 5

\* Largest number of equations in a generated list of equations.
MaxEqs == 2

-----------------------------------------------------------------------------
(* constructs.py: the four kinds of Type.  A type is a tuple whose first   *)
(* element is the name of its class.                                       *)

TypeVariable(name) == <<"TypeVariable", name>>

TypeConstant(name) == <<"TypeConstant", name>>

\* TypeApplication.__init__(arg, ret) stores exactly self.arg and self.ret.
TypeApplication(arg, ret) == <<"TypeApplication", arg, ret>>

TypeList(el_type) == <<"TypeList", el_type>>

\* isinstance(t, cls)
isinstance(t, cls) == t[1] = cls

\* The instance attributes each class sets in its __init__.
Attributes(t) ==
    CASE isinstance(t, "TypeVariable") -> {"name"}
      [] isinstance(t, "TypeConstant") -> {"name"}
      [] isinstance(t, "TypeApplication") -> {"arg", "ret"}
      [] isinstance(t, "TypeList") -> {"el_type"}

\* hasattr(t, a): reading an attribute that is not there raises AttributeError.
hasattr(t, a) == a \in Attributes(t)

\* t.<a> for an attribute the object has (every read of another attribute is
\* guarded by hasattr and raises instead).
getattr(t, a) ==
    CASE a = "name" -> t[2]
      [] a = "el_type" -> t[2]
      [] a = "arg" -> t[2]
      [] a = "ret" -> t[3]

\* The value that stands for a raised AttributeError inside an expression.
AttributeError == <<"AttributeError">>

\* A value is a Type unless an exception was raised while computing it.
Raised(v) == v = AttributeError

-----------------------------------------------------------------------------
(* type_unification.py: occurs, apply_substitution.                        *)

\* The booleans a function returns, as values comparable with AttributeError.
PyTrue == <<"True">>

PyFalse == <<"False">>

RECURSIVE occurs(_, _)
\* PyTrue, PyFalse, or AttributeError when the walk reads term.args.
occurs(var, term) ==
    IF var = term THEN PyTrue
    ELSE IF isinstance(term, "TypeVariable") THEN PyFalse
    ELSE IF isinstance(term, "TypeApplication") THEN
        IF ~hasattr(term, "args") THEN AttributeError
        ELSE IF \E i \in DOMAIN getattr(term, "args") :
                    occurs(var, getattr(term, "args")[i]) = PyTrue
             THEN PyTrue ELSE PyFalse
    ELSE IF isinstance(term, "TypeList") THEN occurs(var, getattr(term, "el_type"))
    ELSE PyFalse

RECURSIVE apply_substitution(_, _, _)
\* apply_substitution without the test of the variable's name.
apply_substitution_any_name(term, x, t) ==
    IF isinstance(term, "TypeApplication") THEN AttributeError
    ELSE IF isinstance(term, "TypeList") THEN
        LET el == apply_substitution(getattr(term, "el_type"), x, t)
        IN  IF Raised(el) THEN AttributeError ELSE TypeList(el)
    ELSE IF isinstance(term, "TypeVariable") THEN t
    ELSE term

\* The term with x replaced by t, or AttributeError when the walk reads
\* term.args of a TypeApplication.
apply_substitution(term, x, t) ==
    IF isinstance(term, "TypeApplication") THEN
        IF ~hasattr(term, "args") THEN AttributeError
        ELSE TypeApplication(
                [i \in DOMAIN getattr(term, "args") |->
                    apply_substitution(getattr(term, "args")[i], x, t)],
                apply_substitution(getattr(term, "_ret"), x, t))
    ELSE IF isinstance(term, "TypeList") THEN
        LET el == apply_substitution(getattr(term, "el_type"), x, t)
        IN  IF Raised(el) THEN AttributeError ELSE TypeList(el)
    ELSE IF isinstance(term, "TypeVariable")
            /\ getattr(term, "name") = getattr(x, "name") THEN t
    ELSE term

-----------------------------------------------------------------------------
(* type_unification.py: unify.  One iteration of the while loop is          *)
(* UnifyStep; the branch it takes is Branch.                                *)

\* The dict `substitutions` as a sequence of <<name, type>> in insertion order.
Keys(subs) == {subs[i][1] : i \in DOMAIN subs}

\* substitutions[name]
Lookup(subs, name) == subs[CHOOSE i \in DOMAIN subs : subs[i][1] = name][2]

\* substitutions[name] = t
SetItem(subs, name, t) ==
    IF name \in Keys(subs)
    THEN [i \in DOMAIN subs |-> IF subs[i][1] = name THEN <<name, t>> ELSE subs[i]]
    ELSE Append(subs, <<name, t>>)

\* The chain without the branch for two type constants.
Branch_no_clash(t1, t2) ==
    IF t1 = t2 THEN "Delete"
    ELSE IF isinstance(t1, "TypeApplication") /\ isinstance(t2, "TypeApplication")
        THEN "Decompose"
    ELSE IF isinstance(t1, "TypeList") /\ isinstance(t2, "TypeList")
        THEN "DecomposeList"
    ELSE IF isinstance(t2, "TypeVariable") /\ ~isinstance(t1, "TypeVariable")
        THEN "Swap"
    ELSE IF isinstance(t1, "TypeVariable") THEN "Eliminate"
    ELSE "Stuck"

\* The chain with a swap whenever the right side is a variable.
Branch_swap_always(t1, t2) ==
    IF t1 = t2 THEN "Delete"
    ELSE IF isinstance(t1, "TypeConstant") /\ isinstance(t2, "TypeConstant")
        THEN "Clash"
    ELSE IF isinstance(t1, "TypeApplication") /\ isinstance(t2, "TypeApplication")
        THEN "Decompose"
    ELSE IF isinstance(t1, "TypeList") /\ isinstance(t2, "TypeList")
        THEN "DecomposeList"
    ELSE IF isinstance(t2, "TypeVariable") THEN "Swap"
    ELSE IF isinstance(t1, "TypeVariable") THEN "Eliminate"
    ELSE "Stuck"

\* The if / elif chain of the loop body, lines 43-88.
Branch(t1, t2) ==
    IF t1 = t2 THEN "Delete"
    ELSE IF isinstance(t1, "TypeConstant") /\ isinstance(t2, "TypeConstant")
        THEN "Clash"
    ELSE IF isinstance(t1, "TypeApplication") /\ isinstance(t2, "TypeApplication")
        THEN "Decompose"
    ELSE IF isinstance(t1, "TypeList") /\ isinstance(t2, "TypeList")
        THEN "DecomposeList"
    ELSE IF isinstance(t2, "TypeVariable") /\ ~isinstance(t1, "TypeVariable")
        THEN "Swap"
    ELSE IF isinstance(t1, "TypeVariable") THEN "Eliminate"
    ELSE "Stuck"

\* The locals after one iteration; `status` is the exception when one is raised.
Locals(eqs, subs, st, r, pair) ==
    [equations |-> eqs, substitutions |-> subs, status |-> st, rule |-> r,
     popped |-> pair]

\* Lines 50-60: both sides are function types.
DecomposeStep(t1, t2, rest, subs) ==
    IF ~hasattr(t1, "args") \/ ~hasattr(t2, "args")
    THEN Locals(rest, subs, "AttributeError", "Decompose", <<t1, t2>>)
    ELSE IF Len(getattr(t1, "args")) = Len(getattr(t2, "args"))
    THEN Locals([i \in DOMAIN getattr(t1, "args") |->
                    <<getattr(t1, "args")[i], getattr(t2, "args")[i]>>]
                 \o <<<<getattr(t1, "_ret"), getattr(t2, "_ret")>>>> \o rest,
                subs, "running", "Decompose", <<t1, t2>>)
    ELSE Locals(rest, subs, "Conflict: argument count mismatch", "Decompose",
                <<t1, t2>>)

\* The equations left, with the substitution not applied.
SubstituteEquations_skipped(rest, t1, t2) == rest

\* Lines 72-78: the substitution applied to both sides of every equation left.
SubstituteEquations(rest, t1, t2) ==
    [i \in DOMAIN rest |-> <<apply_substitution(rest[i][1], t1, t2),
                             apply_substitution(rest[i][2], t1, t2)>>]

\* The recorded values, with the substitution not applied.
SubstituteValues_skipped(subs, t1, t2) == subs

\* Lines 81-84: the substitution applied to every value already recorded.
SubstituteValues(subs, t1, t2) ==
    [i \in DOMAIN subs |-> <<subs[i][1], apply_substitution(subs[i][2], t1, t2)>>]

\* Lines 67-86: the left side is a type variable.
EliminateStep(t1, t2, rest, subs) ==
    LET occ == occurs(t1, t2)
        newEqs == SubstituteEquations(rest, t1, t2)
        newSubs == SubstituteValues(subs, t1, t2)
    IN  IF Raised(occ)
        THEN Locals(rest, subs, "AttributeError", "Eliminate", <<t1, t2>>)
        ELSE IF occ = PyTrue
        THEN Locals(rest, subs, "Error: circular use of variable", "Eliminate",
                    <<t1, t2>>)
        ELSE IF \E i \in DOMAIN newEqs : Raised(newEqs[i][1]) \/ Raised(newEqs[i][2])
        THEN Locals(rest, subs, "AttributeError", "Eliminate", <<t1, t2>>)
        ELSE IF \E i \in DOMAIN newSubs : Raised(newSubs[i][2])
        THEN Locals(newEqs, subs, "AttributeError", "Eliminate", <<t1, t2>>)
        ELSE Locals(newEqs, SetItem(newSubs, getattr(t1, "name"), t2), "running",
                    "Eliminate", <<t1, t2>>)

\* Lines 42-88: one iteration of `while len(equations) > 0`.
UnifyStep(eqs, subs) ==
    LET t1 == eqs[1][1]
        t2 == eqs[1][2]
        rest == Tail(eqs)
        b == Branch(t1, t2)
    IN  CASE b = "Delete" -> Locals(rest, subs, "running", b, <<t1, t2>>)
          [] b = "Clash" -> Locals(rest, subs, "Incompatible types", b, <<t1, t2>>)
          [] b = "Decompose" -> DecomposeStep(t1, t2, rest, subs)
          [] b = "DecomposeList" ->
                Locals(<<<<getattr(t1, "el_type"), getattr(t2, "el_type")>>>> \o rest,
                       subs, "running", b, <<t1, t2>>)
          [] b = "Swap" -> Locals(<<<<t2, t1>>>> \o rest, subs, "running", b, <<t1, t2>>)
          [] b = "Eliminate" -> EliminateStep(t1, t2, rest, subs)
          [] b = "Stuck" -> Locals(rest, subs, "Failed to unify term", b, <<t1, t2>>)

RECURSIVE UnifyRun(_, _)
\* Lines 40-90: the loop run to its end from the given locals: the locals at
\* the return (status "returned") or at the raise.
UnifyRun(eqs, subs) ==
    IF eqs = <<>> THEN Locals(eqs, subs, "returned", "Return", <<>>)
    ELSE LET l == UnifyStep(eqs, subs)
         IN  IF l.status = "running" THEN UnifyRun(l.equations, l.substitutions)
             ELSE l

-----------------------------------------------------------------------------
(* The inputs of unify: every list of at most MaxEqs equations with at most *)
(* MaxSize type nodes in all, over two variables and two constants, and the *)
(* lists the repository's main() and the specification's properties name.   *)

TVarNames == {"a", "b", "c"}

TConNames == {"int", "bool"}

Atoms == {TypeVariable(n) : n \in TVarNames} \cup {TypeConstant(n) : n \in TConNames}

RECURSIVE TypesOfSize(_)
\* The types with exactly n nodes.
TypesOfSize(n) ==
    IF n = 1 THEN Atoms
    ELSE {TypeList(t) : t \in TypesOfSize(n - 1)}
         \cup UNION {{TypeApplication(x, y) :
                        x \in TypesOfSize(i), y \in TypesOfSize(n - 1 - i)} :
                     i \in 1..(n - 2)}

\* The equations with exactly n nodes.
EquationsOfSize(n) ==
    UNION {{<<x, y>> : x \in TypesOfSize(i), y \in TypesOfSize(n - i)} : i \in 1..(n - 1)}

RECURSIVE EquationLists(_, _)
\* The lists of exactly k equations with exactly n nodes in all.
EquationLists(k, n) ==
    IF k = 0 THEN (IF n = 0 THEN {<<>>} ELSE {})
    ELSE UNION {{<<e>> \o l : e \in EquationsOfSize(m), l \in EquationLists(k - 1, n - m)} :
                m \in 2..n}

\* A Python list, which is an instance of no class of constructs.py.
PyList(items) == <<"list", items>>

\* The lists of the four calls of unify that main() is written with; the
\* function types are built with a list of one type as their arg.
Fixtures ==
    {   \* main(), line 100
        <<<<TypeVariable("X"), TypeList(TypeConstant("Int"))>>>>,
        \* main(), lines 115-132
        <<<<TypeVariable("t1"),
            TypeApplication(PyList(<<TypeVariable("t5")>>), TypeVariable("t4"))>>,
          <<TypeVariable("t5"), TypeConstant("int")>>,
          <<TypeVariable("t4"), TypeConstant("bool")>>,
          <<TypeVariable("t6"), TypeConstant("int")>>,
          <<TypeVariable("t7"), TypeConstant("int")>>,
          <<TypeVariable("t6"), TypeVariable("t3")>>,
          <<TypeVariable("t7"), TypeVariable("t3")>>,
          <<TypeVariable("t2"),
            TypeApplication(PyList(<<TypeVariable("t1")>>), TypeVariable("t3"))>>>>,
        \* main(), lines 135-140
        <<<<TypeVariable("t1"), TypeConstant("int")>>,
          <<TypeVariable("t1"), TypeConstant("bool")>>>>,
        \* main(), lines 153-160: t1 = t2 -> t2
        <<<<TypeVariable("t1"),
            TypeApplication(PyList(<<TypeVariable("t2")>>), TypeVariable("t2"))>>>>
    }

\* Further lists unify is applied to: a function type with a type as its
\* arg against a variable, two function types over four variables, and a
\* variable against a list and a function type that contain it.
FunctionLists ==
    {   <<<<TypeVariable("t1"),
            TypeApplication(TypeVariable("t2"), TypeVariable("t2"))>>>>,
        <<<<TypeApplication(TypeVariable("a"), TypeVariable("b")),
            TypeApplication(TypeVariable("c"), TypeVariable("d"))>>>>,
        <<<<TypeVariable("x"), TypeList(TypeVariable("x"))>>>>,
        <<<<TypeVariable("a"),
            TypeApplication(TypeVariable("a"), TypeVariable("b"))>>>>
    }

\* l is one of the inputs unify is called on.
UnifyInput(l) ==
    \/ l \in Fixtures
    \/ l \in FunctionLists
    \/ \E k \in 0..MaxEqs, n \in 0..MaxSize : l \in EquationLists(k, n)

-----------------------------------------------------------------------------
(* The unifier as a state machine: a call of unify on one input, one        *)
(* action per branch of the loop body.                                      *)

\* No program is being inferred: unify was called directly.
InferIdle ==
    /\ program = <<>>
    /\ defIndex = 0
    /\ globalScope = <<>>
    /\ tvgN = 0
    /\ generated = <<>>
    /\ printed = <<>>
    /\ inferStatus = "idle"

\* Algorithm 3 is not running.
Alg3Idle ==
    /\ terms = <<>>
    /\ U = <<>>
    /\ T = <<>>
    /\ solveStatus = "idle"

\* Robinson's unify is not running.
RobinsonIdle ==
    /\ termSet = {}
    /\ substitution = <<>>
    /\ robinsonStatus = "idle"

\* No method of Scope has been called.
NoCall == [method |-> "none", scope |-> 0, id |-> "", exc |-> "none", result |-> 0]

\* No Scope object has been made.
ScopeIdle ==
    /\ scopes = <<>>
    /\ symbolCount = 0
    /\ scopeCall = NoCall

\* The unify of Algorithm 1 is not running.
Alg1Idle ==
    /\ equations1 = <<>>
    /\ no_transformation = <<>>
    /\ status1 = "idle"

\* No UnionFind object has been made.
UfIdle ==
    /\ ufParent = <<>>
    /\ ufUnioned = {}
    /\ ufSets = [exc |-> "not called", sets |-> {}]

\* type_str has not been called.
NotCalled == [str |-> "", exc |-> "not called"]

\* type_str is not called on its own.
StrIdle ==
    /\ strType = <<>>
    /\ strResult = NotCalled

\* compactify is not applied on its own.
CompactIdle ==
    /\ compactAlg = 0
    /\ compactInput = <<>>
    /\ compacted = <<>>

\* Algorithm 2 is not running.
Alg2Idle ==
    /\ U2 = <<>>
    /\ T2 = <<>>
    /\ solveStatus2 = "idle"

Init ==
    /\ UnifyInput(input)
    /\ equations = input
    /\ substitutions = <<>>
    /\ popped = <<>>
    /\ rule = "none"
    /\ status = "running"
    /\ InferIdle
    /\ Alg3Idle
    /\ Alg2Idle
    /\ RobinsonIdle
    /\ ScopeIdle
    /\ CompactIdle
    /\ Alg1Idle
    /\ UfIdle
    /\ StrIdle

\* The loop is at its head with an equation to pop, and the pop takes branch b.
AtBranch(b) ==
    /\ status = "running"
    /\ equations # <<>>
    /\ Branch(equations[1][1], equations[1][2]) = b

\* The locals become those after one iteration.
Iterate ==
    LET l == UnifyStep(equations, substitutions)
    IN  /\ equations' = l.equations
        /\ substitutions' = l.substitutions
        /\ status' = l.status
        /\ rule' = l.rule
        /\ popped' = l.popped
        /\ UNCHANGED input
        /\ UNCHANGED inferVars
        /\ UNCHANGED alg3Vars
        /\ UNCHANGED alg2Vars
        /\ UNCHANGED robinsonVars
        /\ UNCHANGED scopeVars
        /\ UNCHANGED compactVars
        /\ UNCHANGED <<alg1Vars, ufVars, strVars>>

\* Lines 43-45
Delete ==
    /\ AtBranch("Delete")
    /\ Iterate

\* Lines 46-49
Clash ==
    /\ AtBranch("Clash")
    /\ Iterate

\* Lines 50-60
Decompose ==
    /\ AtBranch("Decompose")
    /\ Iterate

\* Lines 61-63
DecomposeList ==
    /\ AtBranch("DecomposeList")
    /\ Iterate

\* Lines 64-66
Swap ==
    /\ AtBranch("Swap")
    /\ Iterate

\* Lines 67-86
Eliminate ==
    /\ AtBranch("Eliminate")
    /\ Iterate

\* Lines 87-88
Stuck ==
    /\ AtBranch("Stuck")
    /\ Iterate

\* Line 90: the loop ends and the dict is returned.
Return ==
    /\ status = "running"
    /\ equations = <<>>
    /\ status' = "returned"
    /\ rule' = "Return"
    /\ UNCHANGED <<input, equations, substitutions, popped>>
    /\ UNCHANGED inferVars
    /\ UNCHANGED alg3Vars
    /\ UNCHANGED alg2Vars
    /\ UNCHANGED robinsonVars
    /\ UNCHANGED scopeVars
    /\ UNCHANGED compactVars
    /\ UNCHANGED <<alg1Vars, ufVars, strVars>>

Next ==
    \/ Delete
    \/ Clash
    \/ Decompose
    \/ DecomposeList
    \/ Swap
    \/ Eliminate
    \/ Stuck
    \/ Return

Spec == Init /\ [][Next]_vars

\* The same machine with the loop always taking its next iteration: the call
\* is one sequential, uninterrupted run of the interpreter.
FairSpec == Spec /\ WF_vars(Next)

-----------------------------------------------------------------------------
(* What the properties of the unifier speak of: the variables of a type and *)
(* the simultaneous application of a substitution to a type.                *)

RECURSIVE TypeVars(_)
\* The names of the type variables that occur in t.
TypeVars(t) ==
    CASE isinstance(t, "TypeVariable") -> {t[2]}
      [] isinstance(t, "TypeConstant") -> {}
      [] isinstance(t, "TypeApplication") -> TypeVars(t[2]) \cup TypeVars(t[3])
      [] isinstance(t, "TypeList") -> TypeVars(t[2])
      [] isinstance(t, "list") -> UNION {TypeVars(t[2][i]) : i \in DOMAIN t[2]}

RECURSIVE Apply(_, _)
\* apply(t, sigma): every variable of t that is a key of sigma replaced by
\* its value; sigma is a sequence of <<name, type>> with distinct names.
Apply(t, sigma) ==
    CASE isinstance(t, "TypeVariable") ->
            IF t[2] \in Keys(sigma) THEN Lookup(sigma, t[2]) ELSE t
      [] isinstance(t, "TypeConstant") -> t
      [] isinstance(t, "TypeApplication") ->
            TypeApplication(Apply(t[2], sigma), Apply(t[3], sigma))
      [] isinstance(t, "TypeList") -> TypeList(Apply(t[2], sigma))

\* The variables of a list of equations.
EquationVars(eqs) ==
    UNION {TypeVars(eqs[k][1]) \cup TypeVars(eqs[k][2]) : k \in DOMAIN eqs}

\* sigma makes the two sides of every equation of eqs equal.
Unifies(sigma, eqs) ==
    \A k \in DOMAIN eqs : Apply(eqs[k][1], sigma) = Apply(eqs[k][2], sigma)

\* The types the properties are tried on: up to three nodes.
TestTypes == TypesOfSize(1) \cup TypesOfSize(2) \cup TypesOfSize(3)

\* The values the candidate unifiers give to a variable: up to two nodes.
ThetaTypes == TypesOfSize(1) \cup TypesOfSize(2)

\* A set of names in some fixed order.
RECURSIVE SetToSeq(_)
SetToSeq(S) ==
    IF S = {} THEN <<>>
    ELSE LET x == CHOOSE y \in S : TRUE IN <<x>> \o SetToSeq(S \ {x})

\* Every substitution that gives each variable of V a value of ThetaTypes.
Thetas(V) ==
    LET names == SetToSeq(V)
    IN  {[i \in DOMAIN names |-> <<names[i], f[i]>>] :
            f \in [DOMAIN names -> ThetaTypes]}

\* unify has returned its dict.
Returned == status = "returned"

\* e is an equation between a variable and another type that contains it.
Circular(e) ==
    /\ e # <<>>
    /\ isinstance(e[1], "TypeVariable")
    /\ e[1] # e[2]
    /\ e[1][2] \in TypeVars(e[2])

-----------------------------------------------------------------------------
(* The claims about the equation-list unifier.                              *)

\* C1: whenever unify returns sigma, sigma is idempotent: no key of sigma
\* occurs in a value of sigma, and applying sigma twice to a type gives the
\* same type as applying it once.
C1_Idempotent ==
    Returned =>
        /\ \A i, j \in DOMAIN substitutions :
                substitutions[i][1] \notin TypeVars(substitutions[j][2])
        /\ \A t \in TestTypes :
                Apply(Apply(t, substitutions), substitutions) = Apply(t, substitutions)

\* A return where an earlier binding was rewritten by a later elimination.
C1_Witness ==
    /\ Returned
    /\ Len(substitutions) >= 2
    /\ \E k \in DOMAIN input :
        /\ isinstance(input[k][1], "TypeVariable")
        /\ input[k][1][2] \in Keys(substitutions)
        /\ TypeVars(input[k][2]) \cap Keys(substitutions) # {}
        /\ Lookup(substitutions, input[k][1][2]) # input[k][2]

\* C2: whenever unify returns sigma, sigma makes the two sides of every
\* input equation structurally equal.
C2_Sound == Returned => Unifies(substitutions, input)

\* A return on two equations that share a variable, both of them eliminated.
C2_Witness ==
    /\ Returned
    /\ Len(input) = 2
    /\ Len(substitutions) = 2
    /\ TypeVars(input[1][1]) \cap (TypeVars(input[2][1]) \cup TypeVars(input[2][2])) # {}

\* C3: whenever unify returns sigma, every unifier theta of the input
\* equations (over the bounded set Thetas) factors through sigma: there is a
\* rho with theta = rho o sigma on every variable, and rho = theta is one.
C3_MostGeneral ==
    Returned =>
        \A theta \in Thetas(EquationVars(input)) :
            Unifies(theta, input) =>
                \E rho \in {theta} :
                    \A v \in EquationVars(input) :
                        Apply(TypeVariable(v), theta)
                            = Apply(Apply(TypeVariable(v), substitutions), rho)

\* A return with a binding to a type that still holds a variable, on an input
\* that has a unifier giving that variable a constant.
C3_Witness ==
    /\ Returned
    /\ \E i \in DOMAIN substitutions : TypeVars(substitutions[i][2]) # {}
    /\ \E theta \in Thetas(EquationVars(input)) :
        /\ Unifies(theta, input)
        /\ \A i \in DOMAIN theta : TypeVars(theta[i][2]) = {}

\* C4: whenever the popped pair is a type variable and a different type that
\* contains it, unify fails with the occurs-check error; so it does on
\* (a, TyApp(a, b)) and on (x, TyList(x)).
C4_OccursCheck ==
    (rule = "Eliminate" /\ Circular(popped)) =>
        status = "Error: circular use of variable"

\* C5: whenever the popped pair is two unequal type constants unify fails
\* with the clash error, and it never returns on an input that equates one
\* variable with two different constants.
C5_Clash ==
    /\ (/\ popped # <<>>
        /\ isinstance(popped[1], "TypeConstant")
        /\ isinstance(popped[2], "TypeConstant")
        /\ popped[1] # popped[2]) => status = "Incompatible types"
    /\ (/\ status # "running"
        /\ \E j, k \in DOMAIN input :
            /\ isinstance(input[j][1], "TypeVariable")
            /\ input[j][1] = input[k][1]
            /\ isinstance(input[j][2], "TypeConstant")
            /\ isinstance(input[k][2], "TypeConstant")
            /\ input[j][2] # input[k][2]) => status = "Incompatible types"

\* The clash of t1 = int with t1 = bool, met after t1 was eliminated.
C5_Witness ==
    /\ status = "Incompatible types"
    /\ Len(input) = 2
    /\ Len(substitutions) = 1
    /\ input[1][1] = input[2][1]
    /\ popped = <<input[1][2], input[2][2]>>

\* C6: when the popped pair is two function types, unify puts (arg1, arg2)
\* and (ret1, ret2) at the front of the queue and goes on, and on
\* (TyApp(a, b), TyApp(c, d)) it returns a sigma that equates a with c and
\* b with d.
C6_Decompose ==
    /\ rule = "Decompose" =>
        /\ status = "running"
        /\ Len(equations) >= 2
        /\ equations[1] = <<popped[1][2], popped[2][2]>>
        /\ equations[2] = <<popped[1][3], popped[2][3]>>
    /\ (/\ status # "running"
        /\ input = <<<<TypeApplication(TypeVariable("a"), TypeVariable("b")),
                       TypeApplication(TypeVariable("c"), TypeVariable("d"))>>>>) =>
        /\ Returned
        /\ Apply(TypeVariable("a"), substitutions)
            = Apply(TypeVariable("c"), substitutions)
        /\ Apply(TypeVariable("b"), substitutions)
            = Apply(TypeVariable("d"), substitutions)

\* C7: on every input the loop ends, with the dict returned or an exception
\* raised, and an iteration that swaps is never followed by one that swaps.
C7_Terminates ==
    /\ <>(status # "running")
    /\ [][rule = "Swap" => rule' # "Swap"]_vars

\* A return after a swap and two eliminations.
C7_Witness ==
    /\ Returned
    /\ Len(substitutions) = 2
    /\ \E k \in DOMAIN input :
        /\ isinstance(input[k][2], "TypeVariable")
        /\ ~isinstance(input[k][1], "TypeVariable")

-----------------------------------------------------------------------------
(* microml/ast.py: the nodes of a Micro-ML syntax tree.  A node is a tuple   *)
(* whose first element is the name of its class.                             *)

IdExpr(id) == <<"IdExpr", id>>

IntLiteral(val) == <<"IntLiteral", val>>

RealLiteral(val) == <<"RealLiteral", val>>

BoolLiteral(val) == <<"BoolLiteral", val>>

UnitExpr == <<"UnitExpr">>

IfExpr(condition, then_expr, else_expr) == <<"IfExpr", condition, then_expr, else_expr>>

LetExpr(var, val, expr) == <<"LetExpr", var, val, expr>>

CallExpr(func_expr, arg) == <<"CallExpr", func_expr, arg>>

FnExpr(params, body) == <<"FnExpr", params, body>>

BinaryExpr(op, left, right) == <<"BinaryExpr", op, left, right>>

UnaryExpr(op, expr) == <<"UnaryExpr", op, expr>>

FunctionDefinition(func_name, params, body) ==
    <<"FunctionDefinition", func_name, params, body>>

-----------------------------------------------------------------------------
(* scope.py: a Scope is the list of its frames, its own first and the global *)
(* one last; a frame is the dict _symbols as a sequence of <<id, type>> in   *)
(* insertion order.                                                          *)

\* id in self._symbols
InFrame(frame, id) == \E i \in DOMAIN frame : frame[i][1] = id

\* The value that stands for the exception of Scope.lookup.
NotFound == <<"not found">>

RECURSIVE Instance(_)
\* A copy of type t with its variables renamed apart.
Instance(t) ==
    CASE isinstance(t, "TypeVariable") -> TypeVariable(t[2] \o "'")
      [] isinstance(t, "TypeConstant") -> t
      [] isinstance(t, "TypeApplication") -> TypeApplication(Instance(t[2]), Instance(t[3]))
      [] isinstance(t, "TypeList") -> TypeList(Instance(t[2]))

RECURSIVE scope_lookup_instance(_, _)
\* A lookup that instantiates: it returns a copy of the symbol's type.
scope_lookup_instance(scope, id) ==
    IF scope = <<>> THEN NotFound
    ELSE IF InFrame(scope[1], id)
    THEN Instance(scope[1][CHOOSE i \in DOMAIN scope[1] : scope[1][i][1] = id][2])
    ELSE scope_lookup_instance(Tail(scope), id)

RECURSIVE scope_lookup(_, _)
\* Scope.lookup(id).type: the type of the innermost symbol named id.
scope_lookup(scope, id) ==
    IF scope = <<>> THEN NotFound
    ELSE IF InFrame(scope[1], id)
    THEN scope[1][CHOOSE i \in DOMAIN scope[1] : scope[1][i][1] = id][2]
    ELSE scope_lookup(Tail(scope), id)

\* TypeVarGenerator.next() when the counter is n; the counter becomes n + 1.
tvg_next(n) == TypeVariable("t" \o ToString(n))

\* The frame, counter and exception after the loop
\* `for param in params: scope.create(param); scope.lookup(param).type = tvg.next()`.
RECURSIVE create_params(_, _, _)
create_params(params, frame, n) ==
    IF params = <<>> THEN [frame |-> frame, n |-> n, exc |-> "none"]
    ELSE IF InFrame(frame, params[1])
    THEN [frame |-> frame, n |-> n, exc |-> "already exists in scope"]
    ELSE create_params(Tail(params), Append(frame, <<params[1], tvg_next(n)>>), n + 1)

-----------------------------------------------------------------------------
(* type_inference.py: TypeEquationGenerator.  A walk returns the equations,  *)
(* the counter of the generator after it, the type of the node's symbol and  *)
(* the exception raised ("none" when it returned).                           *)

INT_TYPE == "int"

REAL_TYPE == "real"

BOOL_TYPE == "bool"

UNIT_TYPE == "unit"

Walked(eqs, n, ty, exc) == [equations |-> eqs, n |-> n, type |-> ty, exc |-> exc]

RECURSIVE function_type_reversed(_, _)
\* The function type with the loop of line 104 run over param_types instead
\* of reversed(param_types): paramk -> ... -> param1 -> return type.
function_type_reversed(param_types, ret) ==
    IF param_types = <<>> THEN ret
    ELSE TypeApplication(param_types[Len(param_types)],
            function_type_reversed(SubSeq(param_types, 1, Len(param_types) - 1), ret))

\* param1 -> param2 -> ... -> return type
RECURSIVE function_type(_, _)
function_type(param_types, ret) ==
    IF param_types = <<>> THEN ret
    ELSE TypeApplication(param_types[1], function_type(Tail(param_types), ret))

\* The types of the parameters, or unit when there is none.
param_types(frame) ==
    IF frame = <<>> THEN <<TypeConstant(UNIT_TYPE)>>
    ELSE [i \in DOMAIN frame |-> frame[i][2]]

RECURSIVE expression(_, _, _)
RECURSIVE extend_all(_, _, _)

\* equations.extend(self._expression(e, scope)) for each e of exprs in turn;
\* `types` are the types of their symbols.
extend_all(exprs, scope, n) ==
    IF exprs = <<>>
    THEN [equations |-> <<>>, n |-> n, types |-> <<>>, exc |-> "none"]
    ELSE LET h == expression(exprs[1], scope, n)
             r == extend_all(Tail(exprs), scope, h.n)
         IN  IF h.exc # "none"
             THEN [equations |-> h.equations, n |-> h.n, types |-> <<>>, exc |-> h.exc]
             ELSE [equations |-> h.equations \o r.equations, n |-> r.n,
                   types |-> <<h.type>> \o r.types, exc |-> r.exc]

\* Lines 160-184
if_expr(ast, scope, n, symbol) ==
    LET w == extend_all(<<ast[2], ast[3], ast[4]>>, scope, n)
    IN  IF w.exc # "none" THEN Walked(w.equations, w.n, symbol, w.exc)
        ELSE Walked(w.equations \o <<<<w.types[1], TypeConstant(BOOL_TYPE)>>,
                                     <<symbol, w.types[2]>>,
                                     <<symbol, w.types[3]>>>>,
                    w.n, symbol, "none")

\* Lines 186-217: the value is walked in the scope of the let, and its type
\* is read in the scope around the let (line 211).
let_expr(ast, scope, n, symbol) ==
    LET var_type == tvg_next(n)
        inside_let == <<<<<<ast[2], var_type>>>>>> \o scope
        w == extend_all(<<ast[3], ast[4]>>, inside_let, n + 1)
        val_type == IF ast[3][1] = "IdExpr" THEN scope_lookup(scope, ast[3][2])
                    ELSE w.types[1]
    IN  IF w.exc # "none" THEN Walked(w.equations, w.n, symbol, w.exc)
        ELSE IF val_type = NotFound THEN Walked(w.equations, w.n, symbol, "not found")
        ELSE Walked(w.equations \o <<<<var_type, val_type>>, <<symbol, w.types[2]>>>>,
                    w.n, symbol, "none")

\* Lines 219-245
call_expr(ast, scope, n, symbol) ==
    LET w == extend_all(<<ast[2], ast[3]>>, scope, n)
    IN  IF w.exc # "none" THEN Walked(w.equations, w.n, symbol, w.exc)
        ELSE Walked(w.equations
                        \o <<<<w.types[1], TypeApplication(w.types[2], symbol)>>>>,
                    w.n, symbol, "none")

\* Lines 247-274
fn_expr(ast, scope, n, symbol) ==
    LET p == create_params(ast[2], <<>>, n)
        b == expression(ast[3], <<p.frame>> \o scope, p.n)
    IN  IF p.exc # "none" THEN Walked(<<>>, p.n, symbol, p.exc)
        ELSE IF b.exc # "none" THEN Walked(b.equations, b.n, symbol, b.exc)
        ELSE Walked(b.equations
                        \o <<<<symbol, function_type(param_types(p.frame), b.type)>>>>,
                    b.n, symbol, "none")

\* Lines 276-351
binary_expr(ast, scope, n, symbol) ==
    LET w == extend_all(<<ast[3], ast[4]>>, scope, n)
        op == ast[2]
        operands(name) == <<<<symbol, TypeConstant(name)>>,
                            <<w.types[1], TypeConstant(name)>>,
                            <<w.types[2], TypeConstant(name)>>>>
    IN  IF w.exc # "none" THEN Walked(w.equations, w.n, symbol, w.exc)
        ELSE IF op \in {"==", "!=", "<", ">", "<=", ">="}
        THEN Walked(w.equations \o <<<<symbol, TypeConstant(BOOL_TYPE)>>,
                                     <<w.types[1], w.types[2]>>>>,
                    w.n, symbol, "none")
        ELSE IF op \in {"+", "-", "*"}
        THEN Walked(w.equations \o operands(INT_TYPE), w.n, symbol, "none")
        ELSE IF op = "/"
        THEN Walked(w.equations \o operands(REAL_TYPE), w.n, symbol, "none")
        ELSE IF op \in {"and", "or"}
        THEN Walked(w.equations \o operands(BOOL_TYPE), w.n, symbol, "none")
        ELSE Walked(w.equations, w.n, symbol, "Unrecognized binary operator")

\* Lines 353-387
unary_expr(ast, scope, n, symbol) ==
    LET w == extend_all(<<ast[3]>>, scope, n)
        op == ast[2]
        operand(name) == <<<<symbol, TypeConstant(name)>>,
                           <<w.types[1], TypeConstant(name)>>>>
    IN  IF w.exc # "none" THEN Walked(w.equations, w.n, symbol, w.exc)
        ELSE IF op = "-"
        THEN Walked(w.equations \o operand(INT_TYPE), w.n, symbol, "none")
        ELSE IF op = "not"
        THEN Walked(w.equations \o operand(BOOL_TYPE), w.n, symbol, "none")
        ELSE Walked(w.equations, w.n, symbol, "Unrecognized unary operator")

\* Lines 115-158: an identifier takes the symbol of the scope and gives no
\* equation; every other node gets the next type variable.
expression(ast, scope, n) ==
    IF ast[1] = "IdExpr"
    THEN LET ty == scope_lookup(scope, ast[2])
         IN  Walked(<<>>, n, ty, IF ty = NotFound THEN "not found" ELSE "none")
    ELSE LET symbol == tvg_next(n)
             literal(name) == Walked(<<<<symbol, TypeConstant(name)>>>>, n + 1,
                                     symbol, "none")
         IN  CASE ast[1] = "IfExpr" -> if_expr(ast, scope, n + 1, symbol)
               [] ast[1] = "LetExpr" -> let_expr(ast, scope, n + 1, symbol)
               [] ast[1] = "CallExpr" -> call_expr(ast, scope, n + 1, symbol)
               [] ast[1] = "FnExpr" -> fn_expr(ast, scope, n + 1, symbol)
               [] ast[1] = "BinaryExpr" -> binary_expr(ast, scope, n + 1, symbol)
               [] ast[1] = "UnaryExpr" -> unary_expr(ast, scope, n + 1, symbol)
               [] ast[1] = "UnitExpr" -> literal(UNIT_TYPE)
               [] ast[1] = "IntLiteral" -> literal(INT_TYPE)
               [] ast[1] = "RealLiteral" -> literal(REAL_TYPE)
               [] ast[1] = "BoolLiteral" -> literal(BOOL_TYPE)

\* The walk of a function definition with a scope.create that starts a new
\* table for the function instead of adding to the table of the scope.
function_definition_new_table(ast, global, n) ==
    LET func_type == tvg_next(n)
        created == <<<<ast[2], func_type>>>>
        p == create_params(ast[3], <<>>, n + 1)
        b == expression(ast[4], <<p.frame, created>>, p.n)
        Result(eqs, m, g, exc) == [equations |-> eqs, n |-> m, scope |-> g, exc |-> exc]
    IN  IF InFrame(global, ast[2])
        THEN Result(<<>>, n, global, "already exists in scope")
        ELSE IF p.exc # "none" THEN Result(<<>>, p.n, created, p.exc)
        ELSE IF b.exc # "none" THEN Result(b.equations, b.n, created, b.exc)
        ELSE Result(b.equations
                        \o <<<<func_type, function_type(param_types(p.frame), b.type)>>>>,
                    b.n, created, "none")

\* Lines 70-113: the equations, the counter, the global frame and the
\* exception after the walk of a function definition.
function_definition(ast, global, n) ==
    LET func_type == tvg_next(n)
        created == Append(global, <<ast[2], func_type>>)
        p == create_params(ast[3], <<>>, n + 1)
        b == expression(ast[4], <<p.frame, created>>, p.n)
        Result(eqs, m, g, exc) == [equations |-> eqs, n |-> m, scope |-> g, exc |-> exc]
    IN  IF InFrame(global, ast[2])
        THEN Result(<<>>, n, global, "already exists in scope")
        ELSE IF p.exc # "none" THEN Result(<<>>, p.n, created, p.exc)
        ELSE IF b.exc # "none" THEN Result(b.equations, b.n, created, b.exc)
        ELSE Result(b.equations
                        \o <<<<func_type, function_type(param_types(p.frame), b.type)>>>>,
                    b.n, created, "none")

\* Lines 406-444: the symbols of the global scope; the generator counts to
\* NumBuiltins while it builds them.
create_global_scope ==
    <<  <<"hd", TypeApplication(TypeList(tvg_next(0)), tvg_next(0))>>,
        <<"null", TypeApplication(TypeList(tvg_next(1)), TypeConstant(BOOL_TYPE))>>,
        <<"nil", TypeList(tvg_next(2))>>,
        <<"cons", TypeApplication(tvg_next(3),
                    TypeApplication(TypeList(tvg_next(3)), TypeList(tvg_next(3))))>>,
        <<"tl", TypeApplication(TypeList(tvg_next(4)), TypeList(tvg_next(4)))>>  >>

NumBuiltins == Len(create_global_scope)

-----------------------------------------------------------------------------
(* constructs.py: type_str, the type written with 'a, 'b, ... for its        *)
(* variables.  A PolymorphicTypeVar is the sequence of the variable names it *)
(* has met; the k-th name met is written with the k-th letter.               *)

LETTERS == <<"a", "b", "c", "d", "e", "f", "g", "h", "i", "j", "k", "l", "m",
             "n", "o", "p", "q", "r", "s", "t", "u", "v", "w", "x", "y", "z">>

\* What a call of type_str or get_type gives: the string returned and the
\* ptv after the call, or the exception raised and the ptv when it was raised.
Str(str, ptv) == [str |-> str, ptv |-> ptv, exc |-> "none"]

\* PolymorphicTypeVar.get_type, lines 18-23: a name not met before takes
\* LETTERS[self._n], which raises IndexError when the letters are used up.
get_type(ptv, var_name) ==
    LET seen == \E i \in DOMAIN ptv : ptv[i] = var_name
        types == IF seen THEN ptv ELSE Append(ptv, var_name)
        k == CHOOSE i \in DOMAIN types : types[i] = var_name
    IN  IF ~seen /\ Len(ptv) >= Len(LETTERS)
        THEN [str |-> "", ptv |-> ptv, exc |-> "IndexError"]
        ELSE Str("'" \o LETTERS[k], types)

RECURSIVE type_str(_, _)
\* Type.type_str(ptv).  An exception raised in the type_str of a part leaves
\* the type_str of the whole.
type_str(t, ptv) ==
    CASE isinstance(t, "TypeVariable") -> get_type(ptv, getattr(t, "name"))
      [] isinstance(t, "TypeConstant") -> Str(getattr(t, "name"), ptv)
      [] isinstance(t, "TypeApplication") ->
            LET arg == type_str(getattr(t, "arg"), ptv)
                ret == type_str(getattr(t, "ret"), arg.ptv)
            IN  IF arg.exc # "none" THEN arg
                ELSE IF ret.exc # "none" THEN ret
                ELSE IF isinstance(getattr(t, "arg"), "TypeApplication")
                THEN Str("(" \o arg.str \o ") -> " \o ret.str, ret.ptv)
                ELSE Str(arg.str \o " -> " \o ret.str, ret.ptv)
      [] isinstance(t, "TypeList") ->
            LET el_type == type_str(getattr(t, "el_type"), ptv)
            IN  IF el_type.exc # "none" THEN el_type
                ELSE IF isinstance(getattr(t, "el_type"), "TypeApplication")
                THEN Str("(el)[]", el_type.ptv)
                ELSE Str(el_type.str \o "[]", el_type.ptv)

-----------------------------------------------------------------------------
(* The programs type_infer_code is run on: the programs of the              *)
(* specification's scenario table, and every one-definition program whose    *)
(* body has at most MaxAstSize nodes.                                        *)

\* Largest number of nodes in a generated function body.
MaxAstSize == 3

Identifiers == {"x", "y", "hd"}

ExprAtoms == {IdExpr(id) : id \in Identifiers} \cup {IntLiteral(1), BoolLiteral(TRUE)}

BinaryOps == {"==", "+", "/", "and"}

UnaryOps == {"-", "not"}

ParamLists == {<<>>, <<"x">>, <<"x", "y">>, <<"x", "x">>}

RECURSIVE ExprsOfSize(_)
\* The expressions with exactly n nodes.
ExprsOfSize(n) ==
    IF n = 1 THEN ExprAtoms
    ELSE {UnaryExpr(op, e) : op \in UnaryOps, e \in ExprsOfSize(n - 1)}
         \cup {FnExpr(ps, e) : ps \in {<<>>, <<"y">>, <<"y", "y">>}, e \in ExprsOfSize(n - 1)}
         \cup UNION {{BinaryExpr(op, l, r) :
                        op \in BinaryOps, l \in ExprsOfSize(i), r \in ExprsOfSize(n - 1 - i)}
                     \cup {CallExpr(l, r) : l \in ExprsOfSize(i), r \in ExprsOfSize(n - 1 - i)}
                     \cup {LetExpr(v, l, r) :
                            v \in {"x", "y"}, l \in ExprsOfSize(i), r \in ExprsOfSize(n - 1 - i)} :
                     i \in 1..(n - 2)}
         \cup UNION {UNION {{IfExpr(c, l, r) : c \in ExprsOfSize(i), l \in ExprsOfSize(j),
                                               r \in ExprsOfSize(n - 1 - i - j)} :
                            j \in 1..(n - 2 - i)} :
                     i \in 1..(n - 3)}

\* fun id x = x;
IdProgram == <<FunctionDefinition("id", <<"x">>, IdExpr("x"))>>

\* fun bad x = x + true;
BadProgram ==
    <<FunctionDefinition("bad", <<"x">>,
        BinaryExpr("+", IdExpr("x"), BoolLiteral(TRUE)))>>

ScenarioPrograms ==
    {   <<>>,
        IdProgram,
        BadProgram,
        \* fun const x y = x;
        <<FunctionDefinition("const", <<"x", "y">>, IdExpr("x"))>>,
        \* fun fact x = if x == 0 then 1 else x * fact(x - 1);
        <<FunctionDefinition("fact", <<"x">>,
            IfExpr(BinaryExpr("==", IdExpr("x"), IntLiteral(0)),
                   IntLiteral(1),
                   BinaryExpr("*", IdExpr("x"),
                       CallExpr(IdExpr("fact"),
                           BinaryExpr("-", IdExpr("x"), IntLiteral(1))))))>>,
        \* fun apply1 f x = f x;
        <<FunctionDefinition("apply1", <<"f", "x">>, CallExpr(IdExpr("f"), IdExpr("x")))>>,
        \* fun len xs = if null xs then 0 else 1 + len (tl xs);
        <<FunctionDefinition("len", <<"xs">>,
            IfExpr(CallExpr(IdExpr("null"), IdExpr("xs")),
                   IntLiteral(0),
                   BinaryExpr("+", IntLiteral(1),
                       CallExpr(IdExpr("len"), CallExpr(IdExpr("tl"), IdExpr("xs"))))))>>,
        \* fun id x = x; fun unit = (); fun half x = x / 2.0;
        <<FunctionDefinition("id", <<"x">>, IdExpr("x")),
          FunctionDefinition("unit", <<>>, UnitExpr),
          FunctionDefinition("half", <<"x">>,
            BinaryExpr("/", IdExpr("x"), RealLiteral(2)))>>,
        \* fun unit = ();
        <<FunctionDefinition("unit", <<>>, UnitExpr)>>,
        \* fun half x = x / 2.0;
        <<FunctionDefinition("half", <<"x">>,
            BinaryExpr("/", IdExpr("x"), RealLiteral(2)))>>
    }

\* fun f x y = if hd y then hd x + 1 else 0;
HdTwice ==
    <<FunctionDefinition("f", <<"x", "y">>,
        IfExpr(CallExpr(IdExpr("hd"), IdExpr("y")),
               BinaryExpr("+", CallExpr(IdExpr("hd"), IdExpr("x")), IntLiteral(1)),
               IntLiteral(0)))>>

\* Programs with an anonymous function of two parameters, and with two uses
\* of a builtin.
GeneratorPrograms ==
    {   \* fun f x y = fn a b => a;
        <<FunctionDefinition("f", <<"x", "y">>, FnExpr(<<"a", "b">>, IdExpr("a")))>>,
        \* fun f = fn a b => 1;
        <<FunctionDefinition("f", <<>>, FnExpr(<<"a", "b">>, IntLiteral(1)))>>,
        HdTwice
    }

\* p is one of the programs type_infer_code is run on.
InferInput(p) ==
    \/ p \in ScenarioPrograms
    \/ p \in GeneratorPrograms
    \/ \E name \in {"f", "hd"}, ps \in ParamLists, k \in 1..MaxAstSize :
        \E body \in ExprsOfSize(k) : p = <<FunctionDefinition(name, ps, body)>>

-----------------------------------------------------------------------------
(* type_inference.py: type_infer_code and type_infer as a state machine.     *)

\* Lines 473-474: the generator and the global scope are built, and the loop
\* is at its first definition.
InitInfer ==
    /\ InferInput(program)
    /\ defIndex = 1
    /\ globalScope = create_global_scope
    /\ tvgN = NumBuiltins
    /\ generated = <<>>
    /\ printed = <<>>
    /\ inferStatus = "generate"
    /\ input = <<>>
    /\ equations = <<>>
    /\ substitutions = <<>>
    /\ popped = <<>>
    /\ rule = "none"
    /\ status = "idle"
    /\ Alg3Idle
    /\ Alg2Idle
    /\ RobinsonIdle
    /\ ScopeIdle
    /\ CompactIdle
    /\ Alg1Idle
    /\ UfIdle
    /\ StrIdle

\* Line 451: gen_type_eqs on the definition the loop is at.
GenTypeEqs ==
    /\ inferStatus = "generate"
    /\ defIndex <= Len(program)
    /\ LET g == function_definition(program[defIndex], globalScope, tvgN)
       IN  /\ generated' = g.equations
           /\ globalScope' = g.scope
           /\ tvgN' = g.n
           /\ inferStatus' = IF g.exc = "none" THEN "solve" ELSE g.exc
    /\ UNCHANGED <<program, defIndex, printed>>
    /\ UNCHANGED unifyVars
    /\ UNCHANGED alg3Vars
    /\ UNCHANGED alg2Vars
    /\ UNCHANGED robinsonVars
    /\ UNCHANGED scopeVars
    /\ UNCHANGED compactVars
    /\ UNCHANGED <<alg1Vars, ufVars, strVars>>

\* globalScope with the symbol of `name` given the type ty.
SetSymbolType(scope, name, ty) ==
    [i \in DOMAIN scope |-> IF scope[i][1] = name THEN <<name, ty>> ELSE scope[i]]

\* Lines 454-463: unify on the generated equations, then the function's
\* symbol is given its solved type and the type is printed.
Solve ==
    /\ inferStatus = "solve"
    /\ LET l == UnifyRun(generated, <<>>)
           func_name == program[defIndex][2]
           symbol_type == scope_lookup(<<globalScope>>, func_name)
           solved == Lookup(l.substitutions, getattr(symbol_type, "name"))
       IN  /\ input' = generated
           /\ equations' = l.equations
           /\ substitutions' = l.substitutions
           /\ popped' = l.popped
           /\ rule' = l.rule
           /\ status' = l.status
           /\ IF l.status # "returned"
              THEN /\ inferStatus' = l.status
                   /\ UNCHANGED <<globalScope, printed, defIndex>>
              ELSE IF ~isinstance(symbol_type, "TypeVariable")
              THEN /\ inferStatus' = "AssertionError"
                   /\ UNCHANGED <<globalScope, printed, defIndex>>
              ELSE IF getattr(symbol_type, "name") \notin Keys(l.substitutions)
              THEN /\ inferStatus' = "KeyError"
                   /\ UNCHANGED <<globalScope, printed, defIndex>>
              ELSE IF type_str(solved, <<>>).exc # "none"
              THEN /\ globalScope' = SetSymbolType(globalScope, func_name, solved)
                   /\ inferStatus' = type_str(solved, <<>>).exc
                   /\ UNCHANGED <<printed, defIndex>>
              ELSE /\ globalScope' = SetSymbolType(globalScope, func_name, solved)
                   /\ printed' = Append(printed,
                                    func_name \o " : " \o type_str(solved, <<>>).str)
                   /\ defIndex' = defIndex + 1
                   /\ inferStatus' = "generate"
    /\ UNCHANGED <<program, tvgN, generated>>
    /\ UNCHANGED alg3Vars
    /\ UNCHANGED alg2Vars
    /\ UNCHANGED robinsonVars
    /\ UNCHANGED scopeVars
    /\ UNCHANGED compactVars
    /\ UNCHANGED <<alg1Vars, ufVars, strVars>>

\* Line 477: the for loop has no definition left.
EndLoop ==
    /\ inferStatus = "generate"
    /\ defIndex > Len(program)
    /\ inferStatus' = "done"
    /\ UNCHANGED <<program, defIndex, globalScope, tvgN, generated, printed>>
    /\ UNCHANGED unifyVars
    /\ UNCHANGED alg3Vars
    /\ UNCHANGED alg2Vars
    /\ UNCHANGED robinsonVars
    /\ UNCHANGED scopeVars
    /\ UNCHANGED compactVars
    /\ UNCHANGED <<alg1Vars, ufVars, strVars>>

NextInfer ==
    \/ GenTypeEqs
    \/ Solve
    \/ EndLoop

SpecInfer == InitInfer /\ [][NextInfer]_vars


-----------------------------------------------------------------------------
(* The claims about type inference of whole programs.                        *)

\* type_infer_code has ended: the loop ran out of definitions, or an
\* exception left it.
InferEnded == inferStatus \notin {"idle", "generate", "solve"}

\* C8: type inference of the one-definition program `fun id x = x;`
\* succeeds and prints the principal type `id : 'a -> 'a`.
C8_IdPrincipal ==
    (program = IdProgram /\ InferEnded) =>
        /\ inferStatus = "done"
        /\ printed = <<"id : 'a -> 'a">>

\* C9: type inference of the program `fun bad x = x + true;` fails with the
\* clash of the type constants int and bool, and no type is printed for bad.
C9_BadClash ==
    (program = BadProgram /\ InferEnded) =>
        /\ inferStatus = "Incompatible types"
        /\ {popped[1], popped[2]} = {TypeConstant(INT_TYPE), TypeConstant(BOOL_TYPE)}
        /\ printed = <<>>

-----------------------------------------------------------------------------
(* unification/terms.py: a term is a tuple whose first element is the name   *)
(* of its class; a Constant is an Application with no arguments.  A set of   *)
(* Variable objects is the set of their names (they hash and compare by      *)
(* name).                                                                    *)

Variable(name) == <<"Variable", name>>

Application(name, args) == <<"Application", name, args>>

Constant(name) == Application(name, <<>>)

\* Application.arity
arity(term) == Len(term[3])

RECURSIVE term_vars(_)
\* util.py, lines 50-61: the variables of a term.
term_vars(term) ==
    IF term[1] = "Variable" THEN {term[2]}
    ELSE UNION {term_vars(term[3][i]) : i \in DOMAIN term[3]}

-----------------------------------------------------------------------------
(* unification/martelli_algorithm_3.py: multiequations, DEC.  A Multiset is  *)
(* the list of its terms.                                                    *)
(*                                                                           *)
(* A local of the code that is read more than once is bound by a set         *)
(* constructor, CHOOSE result \in {e(x) : x \in {value}} : TRUE, which is     *)
(* e(value) with the value computed once; <<>> \o s is the sequence s with   *)
(* its elements computed.                                                    *)

Multiequation(vs, ts) == [vars |-> vs, terms |-> ts]

IsVariable(term) == term[1] = "Variable"

IsApplication(term) == term[1] = "Application"

\* The multiequation of the variables of M, without its terms.
make_multeq_no_terms(M) ==
    Multiequation({M[i][2] : i \in {k \in DOMAIN M : IsVariable(M[k])}}, <<>>)

\* Lines 78-90
make_multeq(M) ==
    Multiequation({M[i][2] : i \in {k \in DOMAIN M : IsVariable(M[k])}},
                  SelectSeq(M, IsApplication))

RECURSIVE Concat(_)
\* The lists of a list of lists, one after the other.
Concat(lists) == IF lists = <<>> THEN <<>> ELSE lists[1] \o Concat(Tail(lists))

RECURSIVE DEC(_)
\* Lines 139-163: the common part and the frontier of a multiset of terms,
\* or the exception raised.
DEC(M) ==
    LET Raise(exc) == [common |-> <<>>, frontier |-> <<>>, exc |-> exc]
        leaves(i) == [k \in DOMAIN M |-> M[k][3][i]]
    IN  IF Len(M) = 0 THEN Raise("Empty multiset")
        ELSE IF \E k \in DOMAIN M : IsVariable(M[k])
        THEN [common |-> M[CHOOSE k \in DOMAIN M :
                            /\ IsVariable(M[k])
                            /\ \A j \in 1..(k - 1) : ~IsVariable(M[j])],
              frontier |-> <<make_multeq(M)>>,
              exc |-> "none"]
        ELSE IF \E k \in DOMAIN M : M[k][2] # M[1][2] \/ arity(M[k]) # arity(M[1])
        THEN Raise("clash")
        ELSE CHOOSE result \in
            {IF \E i \in DOMAIN parts : parts[i].exc # "none"
             THEN Raise(parts[CHOOSE i \in DOMAIN parts :
                            /\ parts[i].exc # "none"
                            /\ \A j \in 1..(i - 1) : parts[j].exc = "none"].exc)
             ELSE [common |-> Application(M[1][2], [i \in DOMAIN parts |-> parts[i].common]),
                   frontier |-> Concat([i \in DOMAIN parts |-> parts[i].frontier]),
                   exc |-> "none"] :
                parts \in {<<>> \o [i \in 1..arity(M[1]) |-> DEC(leaves(i))]}} : TRUE

-----------------------------------------------------------------------------
(* unification/util.py: UnionFind.  _parent is a function from names to      *)
(* names; the order of its keys is the order the set var_names was iterated  *)
(* in.                                                                       *)

\* The orders a set can be iterated in: the order of a Python set of strings
\* (or of objects hashed by a string) changes with the hash seed.
RECURSIVE Perms(_)
Perms(S) ==
    IF S = {} THEN {<<>>}
    ELSE UNION {{<<x>> \o p : p \in Perms(S \ {x})} : x \in S}

\* Lines 76-82: the immediate parents are compared and linked, not the roots.
union(parent, var1, var2) ==
    LET parent1 == parent[var1]
        parent2 == parent[var2]
    IN  IF parent1 # parent2 THEN [parent EXCEPT ![parent2] = parent1] ELSE parent

RECURSIVE union_rest(_, _, _)
\* Lines 87-88: union(var1, var) for every var of the list vs.
union_rest(parent, var1, vs) ==
    IF vs = <<>> THEN parent
    ELSE CHOOSE result \in {union_rest(linked, var1, Tail(vs)) :
                                linked \in {union(parent, var1, vs[1])}} : TRUE

\* Lines 84-88: vs is the set in the order it is iterated.
union_all(parent, vs) == union_rest(parent, vs[1], Tail(vs))

RECURSIVE find_from(_, _, _)
\* Lines 69-74: the root above var, or "RecursionError" when the parents
\* above var form a cycle; `fuel` is the number of links still to follow.
find_from(parent, var, fuel) ==
    IF parent[var] = var THEN var
    ELSE IF fuel = 0 THEN "RecursionError"
    ELSE find_from(parent, parent[var], fuel - 1)

find(parent, var) == find_from(parent, var, Cardinality(DOMAIN parent))

RECURSIVE group_keys(_, _, _)
\* Lines 92-98: the keys of `groups` in insertion order.
group_keys(parent, names, keys) ==
    IF names = <<>> THEN keys
    ELSE CHOOSE result \in
            {group_keys(parent, Tail(names), grown) :
                grown \in {IF \E i \in DOMAIN keys : keys[i] = find(parent, names[1])
                             THEN keys
                             ELSE Append(keys, find(parent, names[1]))}} : TRUE

\* Lines 90-99: the groups as a list of sets, names being the keys of
\* _parent in order.
get_sets(parent, names) ==
    CHOOSE result \in
        {<<>> \o [i \in DOMAIN keys |-> {v \in DOMAIN parent : find(parent, v) = keys[i]}] :
            keys \in {group_keys(parent, names, <<>>)}} : TRUE

-----------------------------------------------------------------------------
(* martelli_algorithm_3.py: compactify, select_multiequation.                *)

\* Lines 180-182
var_names(multiequations) ==
    UNION {multiequations[k].vars : k \in DOMAIN multiequations}

RECURSIVE union_meqs(_, _, _)
\* Lines 186-188: orders[k] is the set multiequations[k].vars in the order it
\* is iterated.
union_meqs(parent, multiequations, orders) ==
    IF multiequations = <<>> THEN parent
    ELSE CHOOSE result \in {union_meqs(linked, Tail(multiequations), Tail(orders)) :
                                linked \in {IF Cardinality(multiequations[1].vars) >= 2
                                            THEN union_all(parent, orders[1])
                                            ELSE parent}} : TRUE

\* The iteration orders of the variable sets of a list of multiequations.
RECURSIVE Orders(_)
Orders(multiequations) ==
    IF multiequations = <<>> THEN {<<>>}
    ELSE {<<p>> \o rest : p \in Perms(multiequations[1].vars),
                          rest \in Orders(Tail(multiequations))}

\* Lines 166-203: names is var_names in the order it is iterated.
compactify(multiequations, names, orders) ==
    LET terms_of(var_set) ==
            Concat([k \in DOMAIN multiequations |->
                        IF orders[k][1] \in var_set THEN multiequations[k].terms
                        ELSE <<>>])
    IN  CHOOSE result \in
            {IF \E v \in DOMAIN parent : find(parent, v) = "RecursionError"
             THEN [compactified |-> <<>>, exc |-> "RecursionError"]
             ELSE CHOOSE ok \in
                    {[compactified |-> <<>> \o [i \in DOMAIN var_sets |->
                                    Multiequation(var_sets[i], terms_of(var_sets[i]))],
                      exc |-> "none"] : var_sets \in {get_sets(parent, names)}} : TRUE
             : parent \in {union_meqs([v \in var_names(multiequations) |-> v],
                                      multiequations, orders)}} : TRUE

RECURSIVE one_order(_)
\* One of the orders a set can be iterated in.
one_order(S) ==
    IF S = {} THEN <<>>
    ELSE CHOOSE result \in {<<x>> \o one_order(S \ {x}) : x \in {CHOOSE y \in S : TRUE}} : TRUE

\* The lists compactify returns for the iteration orders of var_names, the
\* sets of the multiequations being iterated as `orders`.  get_sets gives
\* the groups in the order the first name of each is met in _parent, whose
\* keys are in the order var_names is iterated: the lists returned are the
\* one returned for one order of var_names with its elements in every order.
compactify_names(multiequations, orders) ==
    CHOOSE result \in
        {IF one.exc # "none" THEN {one}
         ELSE {[compactified |-> <<>> \o [i \in DOMAIN p |-> one.compactified[p[i]]],
                exc |-> "none"] : p \in Perms(DOMAIN one.compactified)}
         : one \in {compactify(multiequations, one_order(var_names(multiequations)),
                               orders)}} : TRUE

\* The test of the left-hand sides alone.
vars_unique_lhs_only(multiequations, i) ==
    \A j \in DOMAIN multiequations :
        j # i => multiequations[i].vars \cap multiequations[j].vars = {}

\* The variables of multiequation i occur nowhere else in the list.
vars_unique(multiequations, i) ==
    \A j \in DOMAIN multiequations :
        /\ j # i => multiequations[i].vars \cap multiequations[j].vars = {}
        /\ \A k \in DOMAIN multiequations[j].terms :
                multiequations[i].vars \cap term_vars(multiequations[j].terms[k]) = {}

\* The first multiequation of the list, whatever its variables.
select_multiequation_first(multiequations) ==
    IF multiequations = <<>> THEN 0 ELSE 1

\* Lines 206-228: the position of the first multiequation whose variables
\* occur nowhere else in the list, 0 for None.
select_multiequation(multiequations) ==
    IF \E i \in DOMAIN multiequations : vars_unique(multiequations, i)
    THEN CHOOSE i \in DOMAIN multiequations :
            /\ vars_unique(multiequations, i)
            /\ \A j \in 1..(i - 1) : ~vars_unique(multiequations, j)
    ELSE 0

\* Lines 268-272: the position of the first multiequation of the list that
\* shares a variable with the selected one.
relocate(selected_vars, multiequations) ==
    CHOOSE m \in DOMAIN multiequations :
        /\ selected_vars \cap multiequations[m].vars # {}
        /\ \A b \in 1..(m - 1) : selected_vars \cap multiequations[b].vars = {}

\* The list with nothing removed.
RemoveAt_kept(list, i) == list

\* list.remove of the element at position i
RemoveAt(list, i) == SubSeq(list, 1, i - 1) \o SubSeq(list, i + 1, Len(list))

-----------------------------------------------------------------------------
(* The multisets of terms Algorithm 3 is run on: at most MaxTerms terms with *)
(* at most MaxTermNodes nodes in all.                                        *)

\* Largest number of terms in a generated multiset.
MaxTerms == 3

\* Largest total number of nodes in a generated multiset.
MaxTermNodes == 5

VarNames == {"x", "y", "z"}

TermAtoms == {Variable(v) : v \in VarNames} \cup {Constant("A")}

RECURSIVE TermsOfSize(_)
\* The terms with exactly n nodes, over f of two arguments and g of one.
TermsOfSize(n) ==
    IF n = 1 THEN TermAtoms
    ELSE {Application("g", <<t>>) : t \in TermsOfSize(n - 1)}
         \cup UNION {{Application("f", <<l, r>>) :
                        l \in TermsOfSize(i), r \in TermsOfSize(n - 1 - i)} :
                     i \in 1..(n - 2)}

RECURSIVE Multisets(_, _)
\* The lists of exactly k terms with exactly n nodes in all.
Multisets(k, n) ==
    IF k = 0 THEN (IF n = 0 THEN {<<>>} ELSE {})
    ELSE UNION {{<<t>> \o M : t \in TermsOfSize(m), M \in Multisets(k - 1, n - m)} :
                m \in 1..n}

\* Multisets unify is given besides the small ones; none is a multiset of
\* main.  f(f(y, x), z) and f(f(z, y), x): the frontier holds the three pairs of
\* the variables x, y and z.  f(f(y, x), w) and f(f(z, y), z): the frontier
\* holds the pairs {y, z}, {x, y} and {w, z}.  f(x, y) and f(g(y), g(x)):
\* x = g(y) with y = g(x).
Alg3Fixtures ==
    {   <<Application("f", <<Application("f", <<Variable("y"), Variable("x")>>),
                             Variable("z")>>),
          Application("f", <<Application("f", <<Variable("z"), Variable("y")>>),
                             Variable("x")>>)>>,
        <<Application("f", <<Application("f", <<Variable("y"), Variable("x")>>),
                             Variable("w")>>),
          Application("f", <<Application("f", <<Variable("z"), Variable("y")>>),
                             Variable("z")>>)>>,
        <<Application("f", <<Variable("x"), Variable("y")>>),
          Application("f", <<Application("g", <<Variable("y")>>),
                             Application("g", <<Variable("x")>>)>>)>>
    }

\* M is one of the multisets unify is called on.
Alg3Input(M) ==
    \/ M \in Alg3Fixtures
    \/ \E k \in 0..MaxTerms, n \in 0..MaxTermNodes : M \in Multisets(k, n)

-----------------------------------------------------------------------------
(* martelli_algorithm_3.py: unify and solve_multiequations as a state        *)
(* machine, one action per way through the body of the loop.                 *)

\* Lines 281-288: the system unify builds; the multiequations of the
\* variables follow in the order the set V is iterated.
Alg3Start ==
    /\ Alg3Input(terms)
    /\ \E order \in Perms(UNION {term_vars(terms[k]) : k \in DOMAIN terms}) :
        U = <<Multiequation({""}, terms)>>
                \o [i \in DOMAIN order |-> Multiequation({order[i]}, <<>>)]
    /\ T = <<>>
    /\ solveStatus = "running"

\* The unifier of type_unification.py is not running.
UnifyIdle ==
    /\ input = <<>>
    /\ equations = <<>>
    /\ substitutions = <<>>
    /\ popped = <<>>
    /\ rule = "none"
    /\ status = "idle"

InitAlg3 ==
    /\ Alg3Start
    /\ UnifyIdle
    /\ InferIdle
    /\ Alg2Idle
    /\ RobinsonIdle
    /\ ScopeIdle
    /\ CompactIdle
    /\ Alg1Idle
    /\ UfIdle
    /\ StrIdle

\* The loop is at its head with U not empty.
AtLoopHead ==
    /\ solveStatus = "running"
    /\ U # <<>>

\* Lines 247-250: no multiequation can be selected.
Cycle ==
    /\ AtLoopHead
    /\ select_multiequation(U) = 0
    /\ solveStatus' = "cycle"
    /\ UNCHANGED <<terms, U, T>>
    /\ UNCHANGED <<unifyVars, inferVars, alg2Vars, robinsonVars, scopeVars, compactVars>>
    /\ UNCHANGED <<alg1Vars, ufVars, strVars>>

\* Lines 253-256: the selected multiequation has no term and moves to T.
Transfer ==
    /\ AtLoopHead
    /\ select_multiequation(U) # 0
    /\ \E i \in {select_multiequation(U)} :
        /\ U[i].terms = <<>>
        /\ U' = RemoveAt(U, i)
        /\ T' = Append(T, U[i])
    /\ UNCHANGED <<terms, solveStatus>>
    /\ UNCHANGED <<unifyVars, inferVars, alg2Vars, robinsonVars, scopeVars, compactVars>>
    /\ UNCHANGED <<alg1Vars, ufVars, strVars>>

\* Line 259: DEC raises on the terms of the selected multiequation.
DecFails ==
    /\ AtLoopHead
    /\ select_multiequation(U) # 0
    /\ \E i \in {select_multiequation(U)} :
        /\ U[i].terms # <<>>
        /\ \E d \in {DEC(U[i].terms)} :
            /\ d.exc # "none"
            /\ solveStatus' = d.exc
    /\ UNCHANGED <<terms, U, T>>
    /\ UNCHANGED <<unifyVars, inferVars, alg2Vars, robinsonVars, scopeVars, compactVars>>
    /\ UNCHANGED <<alg1Vars, ufVars, strVars>>

\* Lines 259-274: the selected multiequation is reduced to its common part,
\* its frontier joins U, U is compactified, and the multiequation that now
\* holds the selected variables moves to T.
Reduce ==
    /\ AtLoopHead
    /\ select_multiequation(U) # 0
    /\ \E i \in {select_multiequation(U)} :
        /\ U[i].terms # <<>>
        /\ \E d \in {DEC(U[i].terms)} :
            /\ d.exc = "none"
            /\ \E extended \in {[U EXCEPT ![i].terms = <<d.common>>] \o d.frontier} :
                \E orders \in Orders(extended) :
                    \E c \in compactify_names(extended, orders) :
                        IF c.exc # "none"
                        THEN /\ solveStatus' = c.exc
                             /\ U' = extended
                             /\ UNCHANGED T
                        ELSE \E j \in {relocate(U[i].vars, c.compactified)} :
                                /\ U' = RemoveAt(c.compactified, j)
                                /\ T' = Append(T, c.compactified[j])
                                /\ UNCHANGED solveStatus
    /\ UNCHANGED terms
    /\ UNCHANGED <<unifyVars, inferVars, alg2Vars, robinsonVars, scopeVars, compactVars>>
    /\ UNCHANGED <<alg1Vars, ufVars, strVars>>

\* Line 277: U is empty and T is returned.
ReturnT ==
    /\ solveStatus = "running"
    /\ U = <<>>
    /\ solveStatus' = "returned"
    /\ UNCHANGED <<terms, U, T>>
    /\ UNCHANGED <<unifyVars, inferVars, alg2Vars, robinsonVars, scopeVars, compactVars>>
    /\ UNCHANGED <<alg1Vars, ufVars, strVars>>

NextAlg3 ==
    \/ Cycle
    \/ Transfer
    \/ DecFails
    \/ Reduce
    \/ ReturnT

SpecAlg3 == InitAlg3 /\ [][NextAlg3]_vars

-----------------------------------------------------------------------------
(* The claims about Algorithm 3.                                             *)

\* C10: the variable sets of the multiequations of T are pairwise disjoint,
\* after every iteration of the loop of solve_multiequations and when it
\* returns T.
C10_DisjointT ==
    \A i, j \in DOMAIN T : i # j => T[i].vars \cap T[j].vars = {}

\* A return of three or more multiequations, one of them with variables that
\* compactify merged and a term.
C10_Witness ==
    /\ solveStatus = "returned"
    /\ Len(T) >= 3
    /\ \E i \in DOMAIN T : Cardinality(T[i].vars) >= 2 /\ T[i].terms # <<>>

\* C11: when solve_multiequations returns T, every variable of the term of
\* the multiequation at position i is in the variable set of a multiequation
\* at a later position, so no variable occurs in the term of its own class.
C11_Topological ==
    solveStatus = "returned" =>
        \A i \in DOMAIN T : \A k \in DOMAIN T[i].terms :
            /\ T[i].vars \cap term_vars(T[i].terms[k]) = {}
            /\ \A v \in term_vars(T[i].terms[k]) :
                    \E j \in (i + 1)..Len(T) : v \in T[j].vars

\* A return where two multiequations after the first have a term, one of
\* them with a variable in it.
C11_Witness ==
    /\ solveStatus = "returned"
    /\ \E i, j \in 2..Len(T) :
        /\ i < j
        /\ T[i].terms # <<>>
        /\ T[j].terms # <<>>
        /\ term_vars(T[i].terms[1]) # {}

RECURSIVE substitute_all(_, _)
\* The term with every variable replaced by its binding in sigma, a function
\* from names to terms.
substitute_all(term, sigma) ==
    IF IsVariable(term)
    THEN (IF term[2] \in DOMAIN sigma THEN sigma[term[2]] ELSE term)
    ELSE Application(term[2], [i \in DOMAIN term[3] |-> substitute_all(term[3][i], sigma)])

RECURSIVE materialise(_, _, _)
\* The substitution a solved system denotes, built from its last
\* multiequation to its first: the variables of a multiequation are bound to
\* its term under the bindings made so far, or to one of themselves when it
\* has no term.
materialise(system, i, sigma) ==
    IF i = 0 THEN sigma
    ELSE LET value == IF system[i].terms # <<>>
                      THEN substitute_all(system[i].terms[1], sigma)
                      ELSE Variable(CHOOSE v \in system[i].vars : TRUE)
         IN  materialise(system, i - 1,
                         [v \in DOMAIN sigma \cup system[i].vars |->
                            IF v \in system[i].vars THEN value ELSE sigma[v]])

\* The bindings of the empty substitution.
NoBindings == [v \in {} |-> v]

\* C12: when unify of Algorithm 3 returns T, the substitution T denotes makes
\* all the input terms the same term, whatever order the sets were iterated in.
C12_Unifier ==
    solveStatus = "returned" =>
        \A i, j \in DOMAIN terms :
            substitute_all(terms[i], materialise(T, Len(T), NoBindings))
                = substitute_all(terms[j], materialise(T, Len(T), NoBindings))

-----------------------------------------------------------------------------
(* unification/martelli_algorithm_2.py.  Its Multiset, Multiequation,        *)
(* make_multeq and DEC are those of Algorithm 3, except that the assertion   *)
(* of DEC has no message.  A multiequation object is known by its position   *)
(* in the list that holds it.                                                *)

\* Lines 132-154
DEC_2(M) ==
    LET d == DEC(M)
    IN  IF d.exc = "clash" THEN [d EXCEPT !.exc = "AssertionError"] ELSE d

RECURSIVE compactify_from(_, _, _, _)
\* Lines 162-174, from multiequations[k] on: `origin` gives, for every
\* element of `compactified`, the position in `multiequations` of the object
\* it is.
compactify_from(multiequations, k, compactified, origin) ==
    IF k > Len(multiequations)
    THEN [compactified |-> compactified, origin |-> origin]
    ELSE LET meq == multiequations[k]
             hits == {c \in DOMAIN compactified : compactified[c].vars \cap meq.vars # {}}
         IN  IF hits # {}
             THEN CHOOSE result \in
                    {compactify_from(multiequations, k + 1, merged, origin) :
                        merged \in {LET c == CHOOSE h \in hits : \A g \in hits : h <= g
                                      IN  [compactified EXCEPT
                            ![c] = Multiequation(compactified[c].vars \cup meq.vars,
                                                 compactified[c].terms \o meq.terms)]}} : TRUE
             ELSE CHOOSE result \in
                    {compactify_from(multiequations, k + 1, appended, origins) :
                        appended \in {Append(compactified, meq)},
                        origins \in {Append(origin, k)}} : TRUE

\* Lines 157-175: each multiequation is merged into the first element of
\* the new list it shares a variable with, or appended to the list.
compactify_2(multiequations) == compactify_from(multiequations, 1, <<>>, <<>>)

\* Lines 215-219: util.apply_substitution (lines 38-47) with every variable
\* of selected_vars bound to `common`.
substitute_common(term, selected_vars, common) ==
    substitute_all(term, [v \in selected_vars |-> common])

\* Lines 194-196: the position of the first multiequation with terms, 0 when
\* there is none.
select_with_terms(multiequations) ==
    IF \E i \in DOMAIN multiequations : multiequations[i].terms # <<>>
    THEN CHOOSE i \in DOMAIN multiequations :
            /\ multiequations[i].terms # <<>>
            /\ \A j \in 1..(i - 1) : multiequations[j].terms = <<>>
    ELSE 0

\* No cycle is ever found in the frontier.
frontier_cycle_never(frontier, selected_vars) == FALSE

\* Lines 203-205
frontier_cycle(frontier, selected_vars) ==
    \E k \in DOMAIN frontier : frontier[k].vars \cap selected_vars # {}

\* Lines 237-244: the system unify builds.
Alg2Start ==
    /\ \E order \in Perms(UNION {term_vars(terms[k]) : k \in DOMAIN terms}) :
        U2 = <<Multiequation({""}, terms)>>
                \o [i \in DOMAIN order |-> Multiequation({order[i]}, <<>>)]
    /\ T2 = <<>>
    /\ solveStatus2 = "running"

\* Line 199: DEC raises on the terms of the selected multiequation.
DecFails2 ==
    /\ solveStatus2 = "running"
    /\ select_with_terms(U2) # 0
    /\ \E p \in {select_with_terms(U2)} :
        \E d \in {DEC_2(U2[p].terms)} :
            /\ d.exc # "none"
            /\ solveStatus2' = d.exc
    /\ UNCHANGED <<U2, T2>>
    /\ UNCHANGED <<unifyVars, inferVars, alg3Vars, robinsonVars, scopeVars, compactVars>>
    /\ UNCHANGED <<alg1Vars, ufVars, strVars>>

\* Lines 203-205: a multiequation of the frontier has a variable of the
\* selected multiequation on its left.
Cycle2 ==
    /\ solveStatus2 = "running"
    /\ select_with_terms(U2) # 0
    /\ \E p \in {select_with_terms(U2)} :
        \E d \in {DEC_2(U2[p].terms)} :
            /\ d.exc = "none"
            /\ frontier_cycle(d.frontier, U2[p].vars)
            /\ solveStatus2' = "cycle"
    /\ UNCHANGED <<U2, T2>>
    /\ UNCHANGED <<unifyVars, inferVars, alg3Vars, robinsonVars, scopeVars, compactVars>>
    /\ UNCHANGED <<alg1Vars, ufVars, strVars>>

\* Lines 199-227: the selected multiequation is reduced to its common part,
\* the frontier joins U, U is compactified, the substitution of the selected
\* variables is applied to every term of U, and the selected object is
\* removed from U, if it is in U, and appended to T.
Reduce2 ==
    /\ solveStatus2 = "running"
    /\ select_with_terms(U2) # 0
    /\ \E p \in {select_with_terms(U2)} :
        \E d \in {DEC_2(U2[p].terms)} :
            /\ d.exc = "none"
            /\ ~frontier_cycle(d.frontier, U2[p].vars)
            /\ \E extended \in {[U2 EXCEPT ![p].terms = <<d.common>>] \o d.frontier} :
                \E c \in {compactify_2(extended)} :
                    \E q \in {IF \E k \in DOMAIN c.origin : c.origin[k] = p
                               THEN CHOOSE k \in DOMAIN c.origin : c.origin[k] = p
                               ELSE 0} :
                        \E selected_meq \in {IF q # 0 THEN c.compactified[q] ELSE extended[p]} :
                            \E substituted \in {[k \in DOMAIN c.compactified |->
                                    Multiequation(c.compactified[k].vars,
                                        [n \in DOMAIN c.compactified[k].terms |->
                                            substitute_common(c.compactified[k].terms[n],
                                                              selected_meq.vars, d.common)])]} :
                                /\ U2' = IF q # 0 THEN RemoveAt(substituted, q) ELSE substituted
                                /\ T2' = Append(T2, IF q # 0 THEN substituted[q] ELSE selected_meq)
    /\ UNCHANGED solveStatus2
    /\ UNCHANGED <<unifyVars, inferVars, alg3Vars, robinsonVars, scopeVars, compactVars>>
    /\ UNCHANGED <<alg1Vars, ufVars, strVars>>

\* Lines 228-233: no multiequation of U has terms; U is appended to T and T
\* is returned.
ReturnT2 ==
    /\ solveStatus2 = "running"
    /\ select_with_terms(U2) = 0
    /\ T2' = T2 \o U2
    /\ solveStatus2' = "returned"
    /\ UNCHANGED U2
    /\ UNCHANGED <<unifyVars, inferVars, alg3Vars, robinsonVars, scopeVars, compactVars>>
    /\ UNCHANGED <<alg1Vars, ufVars, strVars>>

NextAlg2 ==
    \/ DecFails2
    \/ Cycle2
    \/ Reduce2
    \/ ReturnT2

\* Algorithm 2 and then Algorithm 3 are run on the same multiset of terms by
\* one process: the set V is built the same way twice and is iterated in the
\* same order.
InitSolvers ==
    /\ Alg3Start
    /\ Alg2Start
    /\ U2 = U
    /\ UnifyIdle
    /\ InferIdle
    /\ RobinsonIdle
    /\ ScopeIdle
    /\ CompactIdle
    /\ Alg1Idle
    /\ UfIdle
    /\ StrIdle

NextSolvers ==
    \/ NextAlg2
    \/ (solveStatus2 # "running" /\ NextAlg3)

SpecSolvers == InitSolvers /\ [][NextSolvers]_vars

\* The process that runs the two solvers is never stopped while it has a
\* step to take.
FairSolvers == SpecSolvers /\ WF_vars(NextSolvers)

-----------------------------------------------------------------------------
(* The claims about Algorithm 2 and Algorithm 3 together.                    *)

\* The two terms are a variable and an application the variable occurs in:
\* x = f(x).
DirectCycle(ts) ==
    /\ Len(ts) = 2
    /\ \E i, j \in 1..2 :
        /\ IsVariable(ts[i])
        /\ IsApplication(ts[j])
        /\ ts[i][2] \in term_vars(ts[j])

\* The two terms are h(x, y) and h(s, t) with s an application y occurs in
\* and t an application x occurs in: x = s(y) with y = t(x).
MutualCycle(ts) ==
    /\ Len(ts) = 2
    /\ \E i, j \in 1..2 :
        /\ IsApplication(ts[i]) /\ IsApplication(ts[j])
        /\ ts[i][2] = ts[j][2]
        /\ arity(ts[i]) = 2 /\ arity(ts[j]) = 2
        /\ IsVariable(ts[i][3][1]) /\ IsVariable(ts[i][3][2])
        /\ ts[i][3][1] # ts[i][3][2]
        /\ IsApplication(ts[j][3][1]) /\ IsApplication(ts[j][3][2])
        /\ ts[i][3][2][2] \in term_vars(ts[j][3][1])
        /\ ts[i][3][1][2] \in term_vars(ts[j][3][2])

C13_WitnessDirect ==
    /\ DirectCycle(terms)
    /\ solveStatus = "cycle"
    /\ solveStatus2 = "cycle"

\* The multiequations of a solved system, without their order.
SolvedSet(system) == {system[i] : i \in DOMAIN system}

\* C14: when Algorithm 2 and Algorithm 3 both return on the same input, they
\* return the same solved system: the same multiequations, in whatever order.
C14_SameSolved ==
    (solveStatus = "returned" /\ solveStatus2 = "returned") =>
        SolvedSet(T2) = SolvedSet(T)

\* Both calls of solve_multiequations have ended, by a return or by an
\* exception.
SolversEnded ==
    /\ solveStatus # "running"
    /\ solveStatus2 # "running"

\* A step that leaves either loop running after it changed U or T has
\* appended one multiequation to T and left U shorter.
IterationMoves ==
    /\ (solveStatus' = "running" /\ <<U, T>>' # <<U, T>>)
            => (Len(T') = Len(T) + 1 /\ Len(U') < Len(U))
    /\ (solveStatus2' = "running" /\ <<U2, T2>>' # <<U2, T2>>)
            => (Len(T2') = Len(T2) + 1 /\ Len(U2') < Len(U2))

\* The call ended with an exception raised.
Failed(st) == st \notin {"idle", "running", "returned"}

\* Algorithm 3 returns only when U is empty (line 245); Algorithm 2 returns
\* when no multiequation of U has terms, with what is left of U at the end
\* of T, and U is not emptied (lines 228-233).
ReturnedShape ==
    /\ solveStatus = "returned" => U = <<>>
    /\ solveStatus2 = "returned" =>
            /\ \A i \in DOMAIN U2 : U2[i].terms = <<>>
            /\ Len(T2) >= Len(U2)
            /\ SubSeq(T2, Len(T2) - Len(U2) + 1, Len(T2)) = U2

IterationMovesOrFails ==
    /\ (U # <<>> /\ <<U, T, solveStatus>>' # <<U, T, solveStatus>>)
            => \/ Failed(solveStatus')
               \/ (Len(T') = Len(T) + 1 /\ Len(U') < Len(U))
    /\ (U2 # <<>> /\ <<U2, T2, solveStatus2>>' # <<U2, T2, solveStatus2>>)
            => \/ Failed(solveStatus2')
               \/ (Len(T2') = Len(T2) + 1 /\ Len(U2') < Len(U2))

\* U is empty or the call has failed, for both solvers.
EmptiedOrFailed ==
    /\ (U = <<>> \/ Failed(solveStatus))
    /\ (U2 = <<>> \/ Failed(solveStatus2))

-----------------------------------------------------------------------------
(* martelli_algorithm_3.py, main: EXAMPLE 1 and EXAMPLE 2.                   *)

\* Lines 298-304: f(x1, g(A, f(x5, B))), f(h(C), g(x2, f(B, x5))) and
\* f(h(x4), g(x6, x3)).
Example1Terms ==
    <<Application("f", <<Variable("x1"),
                         Application("g", <<Constant("A"),
                                            Application("f", <<Variable("x5"),
                                                               Constant("B")>>)>>)>>),
      Application("f", <<Application("h", <<Constant("C")>>),
                         Application("g", <<Variable("x2"),
                                            Application("f", <<Constant("B"),
                                                               Variable("x5")>>)>>)>>),
      Application("f", <<Application("h", <<Variable("x4")>>),
                         Application("g", <<Variable("x6"), Variable("x3")>>)>>)>>

\* Lines 296-297: f(h(C), g(A, f(B, B)))
Example1Common ==
    Application("f", <<Application("h", <<Constant("C")>>),
                       Application("g", <<Constant("A"),
                                          Application("f", <<Constant("B"),
                                                             Constant("B")>>)>>)>>)

\* Lines 306-313: f(x1, g(x2, x3), x2, B) and
\* f(g(h(A, x5), x2), x1, h(A, x4), x4).
Example2Terms ==
    <<Application("f", <<Variable("x1"),
                         Application("g", <<Variable("x2"), Variable("x3")>>),
                         Variable("x2"),
                         Constant("B")>>),
      Application("f", <<Application("g", <<Application("h", <<Constant("A"),
                                                                Variable("x5")>>),
                                            Variable("x2")>>),
                         Variable("x1"),
                         Application("h", <<Constant("A"), Variable("x4")>>),
                         Variable("x4")>>)>>

\* Lines 281-288 for the multiset M: the multiequations of the variables
\* follow in the order the set V is iterated, which is any order.
MainStart(M) ==
    /\ terms = M
    /\ \E order \in Perms(UNION {term_vars(M[k]) : k \in DOMAIN M}) :
        U = <<Multiequation({""}, M)>>
                \o [i \in DOMAIN order |-> Multiequation({order[i]}, <<>>)]
    /\ T = <<>>
    /\ solveStatus = "running"

\* unify on EXAMPLE 1, lines 315-316.
Example1Start == MainStart(Example1Terms)

\* unify on EXAMPLE 2, lines 318-320.
Example2Start == MainStart(Example2Terms)

\* unify is called on EXAMPLE 1, on EXAMPLE 2 or on one of the generated
\* multisets.
InitMain ==
    /\ Alg3Start \/ Example1Start \/ Example2Start
    /\ UnifyIdle
    /\ InferIdle
    /\ Alg2Idle
    /\ RobinsonIdle
    /\ ScopeIdle
    /\ CompactIdle
    /\ Alg1Idle
    /\ UfIdle
    /\ StrIdle

SpecMain == InitMain /\ [][NextAlg3]_vars

\* The term of the first multiequation of a solved system, with every
\* variable replaced by what the system binds it to.
CommonPart(system) ==
    substitute_all(system[1].terms[1], materialise(system, Len(system), NoBindings))

\* C16: unify of Algorithm 3 on EXAMPLE 1 does not fail, and the solved
\* system it returns denotes the common part f(h(C), g(A, f(B, B))).
C16_Example1 ==
    terms = Example1Terms =>
        /\ solveStatus \in {"running", "returned"}
        /\ solveStatus = "returned" => CommonPart(T) = Example1Common

\* unify has returned the solved system of EXAMPLE 1, with the class
\* {x2, x6}.
C16_Witness ==
    /\ terms = Example1Terms
    /\ solveStatus = "returned"
    /\ \E i \in DOMAIN T : T[i].vars = {"x2", "x6"}

-----------------------------------------------------------------------------
(* unification/robinson_algorithm.py.  A Python set of terms is a set of     *)
(* terms: the terms hash by name and compare by structure.                   *)

RECURSIVE term_occurs(_, _)
\* util.py, lines 5-19: the variable occurs in the term.
term_occurs(var, term) ==
    IF IsVariable(term) THEN var = term
    ELSE \E i \in DOMAIN term[3] : term_occurs(var, term[3][i])

RECURSIVE substitute(_, _, _)
\* util.py, lines 22-35: the term with the variable x replaced by t.
substitute(term, x, t) ==
    IF IsVariable(term) THEN (IF term = x THEN t ELSE term)
    ELSE Application(term[2], [i \in DOMAIN term[3] |-> substitute(term[3][i], x, t)])

\* The set when two terms are the same as soon as they hash the same, by
\* their names: one term of each name is kept.
substitution_all_by_hash(ts, sigma) ==
    LET applied == {substitute_all(term, sigma) : term \in ts}
    IN  {CHOOSE term \in applied : term[2] = name : name \in {term[2] : term \in applied}}

\* Lines 13-15: the substitution applied to every term of the set.
substitution_all(ts, sigma) == {substitute_all(term, sigma) : term \in ts}

RECURSIVE disagreement_set(_)
RECURSIVE disagreement_args(_, _, _)
\* Lines 18-41: the disagreement set of the terms, or the exception raised.
disagreement_set(ts) ==
    IF Cardinality(ts) <= 1 THEN [exc |-> "none", set |-> {}]
    ELSE IF \E term \in ts : IsVariable(term) THEN [exc |-> "none", set |-> ts]
    ELSE LET t == CHOOSE term \in ts : TRUE
         IN  IF \A term \in ts : term[2] = t[2] /\ arity(term) = arity(t)
             THEN disagreement_args(ts, 1, arity(t))
             ELSE [exc |-> "AssertionError", set |-> {}]

\* Lines 35-41: the first disagreement among the arguments i to n.
disagreement_args(ts, i, n) ==
    IF i > n THEN [exc |-> "none", set |-> {}]
    ELSE CHOOSE result \in
            {IF d.exc # "none" \/ d.set # {} THEN d ELSE disagreement_args(ts, i + 1, n) :
                d \in {disagreement_set({term[3][i] : term \in ts})}} : TRUE

\* The list as the set was iterated, with no sorting.
lexical_order_unsorted(order) == order

\* Lines 44-46: the stable sort of the terms, iterated in the given order,
\* that puts the variables first.
lexical_order(order) ==
    SelectSeq(order, IsVariable) \o SelectSeq(order, IsApplication)

\* Lines 74-97 of main: x1, f(x2, g(x4), x3, x5) and f(x3, g(a), b, x6).
RobinsonExample1 ==
    {   Variable("x1"),
        Application("f", <<Variable("x2"), Application("g", <<Variable("x4")>>),
                           Variable("x3"), Variable("x5")>>),
        Application("f", <<Variable("x3"), Application("g", <<Constant("a")>>),
                           Constant("b"), Variable("x6")>>)
    }

\* Lists of terms that clash: f(A) and g(A); the constants A and B; f(A) and
\* f(A, A); f(x, A) and f(x, B).
ClashFixtures ==
    {   <<Application("f", <<Constant("A")>>), Application("g", <<Constant("A")>>)>>,
        <<Constant("A"), Constant("B")>>,
        <<Application("f", <<Constant("A")>>),
          Application("f", <<Constant("A"), Constant("A")>>)>>,
        <<Application("f", <<Variable("x"), Constant("A")>>),
          Application("f", <<Variable("x"), Constant("B")>>)>>
    }

\* The set of the elements of a list.
Range(list) == {list[i] : i \in DOMAIN list}

\* Lines 49-51: unify is called on the set of the terms of a list, with the
\* empty substitution.
RobinsonStart(list) ==
    /\ termSet = Range(list)
    /\ substitution = <<>>
    /\ robinsonStatus = "running"

\* Lines 55-57: the substitution turns the set into a singleton.
RobinsonReturn ==
    /\ robinsonStatus = "running"
    /\ Cardinality(substitution_all(termSet, substitution)) = 1
    /\ robinsonStatus' = "returned"
    /\ UNCHANGED <<termSet, substitution>>
    /\ UNCHANGED <<unifyVars, inferVars, alg3Vars, alg2Vars, scopeVars, compactVars>>
    /\ UNCHANGED <<alg1Vars, ufVars, strVars>>

\* Lines 60-62: the assertion of disagreement_set fails.
RobinsonAssert ==
    /\ robinsonStatus = "running"
    /\ Cardinality(substitution_all(termSet, substitution)) # 1
    /\ disagreement_set(substitution_all(termSet, substitution)).exc # "none"
    /\ robinsonStatus' = "AssertionError"
    /\ UNCHANGED <<termSet, substitution>>
    /\ UNCHANGED <<unifyVars, inferVars, alg3Vars, alg2Vars, scopeVars, compactVars>>
    /\ UNCHANGED <<alg1Vars, ufVars, strVars>>

\* Lines 63-64: the disagreement set has fewer than two elements.
RobinsonIndexError ==
    /\ robinsonStatus = "running"
    /\ Cardinality(substitution_all(termSet, substitution)) # 1
    /\ \E d \in {disagreement_set(substitution_all(termSet, substitution))} :
        /\ d.exc = "none"
        /\ Cardinality(d.set) < 2
    /\ robinsonStatus' = "IndexError"
    /\ UNCHANGED <<termSet, substitution>>
    /\ UNCHANGED <<unifyVars, inferVars, alg3Vars, alg2Vars, scopeVars, compactVars>>
    /\ UNCHANGED <<alg1Vars, ufVars, strVars>>

\* Lines 60-68: s and t are the first two terms of the disagreement set in
\* lexical order, s is a variable that does not occur in t, and s -> t joins
\* the substitution.
RobinsonBind ==
    /\ robinsonStatus = "running"
    /\ Cardinality(substitution_all(termSet, substitution)) # 1
    /\ \E d \in {disagreement_set(substitution_all(termSet, substitution))} :
        /\ d.exc = "none"
        /\ Cardinality(d.set) >= 2
        /\ \E order \in Perms(d.set) :
            \E disagreement \in {lexical_order(order)} :
                \E s \in {disagreement[1]}, t \in {disagreement[2]} :
                    /\ IsVariable(s)
                    /\ ~term_occurs(s, t)
                    /\ substitution' =
                        [var \in DOMAIN substitution \cup {s[2]} |->
                            IF var = s[2] THEN t
                            ELSE substitute(substitution[var], s, t)]
    /\ UNCHANGED <<termSet, robinsonStatus>>
    /\ UNCHANGED <<unifyVars, inferVars, alg3Vars, alg2Vars, scopeVars, compactVars>>
    /\ UNCHANGED <<alg1Vars, ufVars, strVars>>

\* Lines 60-70: s is not a variable, or it occurs in t.
RobinsonFail ==
    /\ robinsonStatus = "running"
    /\ Cardinality(substitution_all(termSet, substitution)) # 1
    /\ \E d \in {disagreement_set(substitution_all(termSet, substitution))} :
        /\ d.exc = "none"
        /\ Cardinality(d.set) >= 2
        /\ \E order \in Perms(d.set) :
            \E disagreement \in {lexical_order(order)} :
                \E s \in {disagreement[1]}, t \in {disagreement[2]} :
                    ~(IsVariable(s) /\ ~term_occurs(s, t))
    /\ robinsonStatus' = "Not unifiable"
    /\ UNCHANGED <<termSet, substitution>>
    /\ UNCHANGED <<unifyVars, inferVars, alg3Vars, alg2Vars, scopeVars, compactVars>>
    /\ UNCHANGED <<alg1Vars, ufVars, strVars>>

NextRobinson ==
    \/ RobinsonReturn
    \/ RobinsonAssert
    \/ RobinsonIndexError
    \/ RobinsonBind
    \/ RobinsonFail

\* Nothing but Robinson's unify is running.
OthersIdle ==
    /\ UnifyIdle
    /\ InferIdle
    /\ Alg3Idle
    /\ Alg2Idle
    /\ ScopeIdle
    /\ CompactIdle
    /\ Alg1Idle
    /\ UfIdle
    /\ StrIdle

\* unify is called on EXAMPLE 1 of main, on one of the clashing sets or on
\* the set of the terms of one of the generated multisets.
InitRobinson ==
    /\ \E list \in {SetToSeq(RobinsonExample1)} \cup ClashFixtures
                    \cup UNION {Multisets(k, n) : k \in 0..MaxTerms, n \in 0..MaxTermNodes} :
        RobinsonStart(list)
    /\ OthersIdle

SpecRobinson == InitRobinson /\ [][NextRobinson]_vars

\* The substitution of the specification for EXAMPLE 1, x2 -> x3, x4 -> a,
\* x3 -> b, x5 -> x6, x1 -> f(b, g(a), b, x6), with x3 -> b carried out in
\* the term of x2.
Example1Unifier ==
    [var \in {"x1", "x2", "x3", "x4", "x5"} |->
        CASE var = "x1" -> Application("f", <<Constant("b"),
                                              Application("g", <<Constant("a")>>),
                                              Constant("b"), Variable("x6")>>)
          [] var = "x2" -> Constant("b")
          [] var = "x3" -> Constant("b")
          [] var = "x4" -> Constant("a")
          [] var = "x5" -> Variable("x6")]

\* Each of the two substitutions is the other one followed by a substitution:
\* on every variable, applying one and then the other gives what the other
\* gives.
Equivalent(sigma, rho) ==
    \A v \in DOMAIN sigma \cup DOMAIN rho
             \cup UNION {term_vars(sigma[w]) : w \in DOMAIN sigma}
             \cup UNION {term_vars(rho[w]) : w \in DOMAIN rho} :
        /\ substitute_all(substitute_all(Variable(v), sigma), rho)
            = substitute_all(Variable(v), rho)
        /\ substitute_all(substitute_all(Variable(v), rho), sigma)
            = substitute_all(Variable(v), sigma)

\* C17: when Robinson's unify returns a substitution, every term of the set
\* becomes the same term under it; on EXAMPLE 1 of main unify does not fail,
\* whichever two terms of the disagreement set come first, and the
\* substitution it returns is equivalent to the one of the specification.
C17_Unifies ==
    /\ robinsonStatus = "returned" =>
        \A t1, t2 \in termSet :
            substitute_all(t1, substitution) = substitute_all(t2, substitution)
    /\ termSet = RobinsonExample1 =>
        /\ robinsonStatus \in {"running", "returned"}
        /\ robinsonStatus = "returned" => Equivalent(substitution, Example1Unifier)

\* unify has returned on EXAMPLE 1 with x6 bound to x5, the other way round
\* than in the specification.
C17_Witness ==
    /\ termSet = RobinsonExample1
    /\ robinsonStatus = "returned"
    /\ "x6" \in DOMAIN substitution
    /\ substitution["x6"] = Variable("x5")

-----------------------------------------------------------------------------
(* Robinson's unify and the unify of Algorithm 3 called on the same terms,   *)
(* one call after the other.                                                 *)

\* unify of Algorithm 3 is called on one of the clashing lists.
ClashStart ==
    /\ terms \in ClashFixtures
    /\ \E order \in Perms(UNION {term_vars(terms[k]) : k \in DOMAIN terms}) :
        U = <<Multiequation({""}, terms)>>
                \o [i \in DOMAIN order |-> Multiequation({order[i]}, <<>>)]
    /\ T = <<>>
    /\ solveStatus = "running"

InitClash ==
    /\ Alg3Start \/ ClashStart
    /\ RobinsonStart(terms)
    /\ UnifyIdle
    /\ InferIdle
    /\ Alg2Idle
    /\ ScopeIdle
    /\ CompactIdle
    /\ Alg1Idle
    /\ UfIdle
    /\ StrIdle

\* Robinson's unify runs to its end, then the unify of Algorithm 3.
NextClash ==
    \/ NextRobinson
    \/ (robinsonStatus # "running" /\ NextAlg3)

SpecClash == InitClash /\ [][NextClash]_vars

RECURSIVE ClashPair(_, _)
\* Two terms clash: at some position that both reach through the same
\* symbols they are applications of different symbols or of different
\* arities.
ClashPair(a, b) ==
    /\ IsApplication(a)
    /\ IsApplication(b)
    /\ \/ a[2] # b[2]
       \/ arity(a) # arity(b)
       \/ \E i \in DOMAIN a[3] : ClashPair(a[3][i], b[3][i])

\* Two of the terms clash.
Clashes(ts) == \E a, b \in ts : ClashPair(a, b)

\* Two of the terms clash at their roots and none is a variable.
HeadClash(ts) ==
    /\ \A a \in ts : IsApplication(a)
    /\ \E a, b \in ts : a[2] # b[2] \/ arity(a) # arity(b)

\* C18: on terms that clash, such as f(A) and g(A) or two distinct constants
\* at the same position, neither Robinson's unify nor the unify of
\* Algorithm 3 returns a result; when the terms clash at their roots the
\* assertion of disagreement_set and the assertion of DEC fail.
C18_ClashFails ==
    /\ Clashes(Range(terms)) =>
        /\ robinsonStatus # "returned"
        /\ solveStatus # "returned"
    /\ HeadClash(Range(terms)) =>
        /\ robinsonStatus \in {"running", "AssertionError"}
        /\ solveStatus \in {"running", "clash"}

\* Both unifiers have failed on f(A) and g(A).
C18_Witness ==
    /\ terms = <<Application("f", <<Constant("A")>>), Application("g", <<Constant("A")>>)>>
    /\ robinsonStatus = "AssertionError"
    /\ solveStatus = "clash"

\* Both unifiers have failed on f(x, A) and f(x, B).
C18_WitnessConstants ==
    /\ terms = <<Application("f", <<Variable("x"), Constant("A")>>),
                 Application("f", <<Variable("x"), Constant("B")>>)>>
    /\ robinsonStatus = "AssertionError"
    /\ solveStatus = "clash"

-----------------------------------------------------------------------------
(* compactify of martelli_algorithm_3.py and of martelli_algorithm_2.py      *)
(* applied to a list of multiequations and then to what it returned.         *)

\* Largest number of multiequations in a generated list.
MaxMeqs == 3

\* Largest number of successive calls of compactify.
MaxCalls == 2

\* The multiequations of the generated lists: one to three variables, with
\* no term or with the term A.
CompactMeqs ==
    {Multiequation(vs, ts) : vs \in (SUBSET VarNames) \ {{}}, ts \in {<<>>, <<Constant("A")>>}}

\* The lists of at most MaxMeqs multiequations.
CompactInputs == UNION {[1..n -> CompactMeqs] : n \in 0..MaxMeqs}

\* The list the next call of compactify is given.
CompactArgument ==
    IF compacted = <<>> THEN compactInput ELSE compacted[Len(compacted)].compactified

\* A next call can be made.
CanCompactify ==
    /\ Len(compacted) < MaxCalls
    /\ compacted # <<>> => compacted[Len(compacted)].exc = "none"

\* What a call gave: the list returned with its objects as they are now,
\* the exception raised, for every object of the list its position in the
\* argument of the call (none when the call made the object), and the list
\* as it was when the call returned.
Call(c, exc, origin) ==
    [compactified |-> c, exc |-> exc, origin |-> origin, returned |-> c]

\* The list `outer` after the objects it has at the positions `origin` have
\* become the elements of `inner`.
Written(outer, origin, inner) ==
    [i \in DOMAIN outer |->
        IF \E c \in DOMAIN origin : origin[c] = i
        THEN inner[CHOOSE c \in DOMAIN origin : origin[c] = i]
        ELSE outer[i]]

\* The k-th list (the list compactInput for k = 0, else the list the k-th
\* call returned) as its objects are after a call of the compactify of
\* Algorithm 2 on the last list has given c: the call updates the objects
\* it keeps (martelli_algorithm_2.py, lines 166-169), and they are objects
\* of every list before.
RECURSIVE ListAfter(_, _)
ListAfter(k, c) ==
    LET list == IF k = 0 THEN compactInput ELSE compacted[k].compactified
    IN  IF k = Len(compacted)
        THEN <<>> \o Written(list, c.origin, c.compactified)
        ELSE <<>> \o Written(list, compacted[k + 1].origin, ListAfter(k + 1, c))

\* martelli_algorithm_3.py, lines 166-203: the multiequations returned are
\* new objects.
Compactify3 ==
    /\ compactAlg = 3
    /\ CanCompactify
    /\ \E names \in Perms(var_names(CompactArgument)), orders \in Orders(CompactArgument) :
        \E c \in {compactify(CompactArgument, names, orders)} :
            compacted' = Append(compacted, Call(c.compactified, c.exc, <<>>))
    /\ UNCHANGED <<compactAlg, compactInput>>
    /\ UNCHANGED <<unifyVars, inferVars, alg3Vars, alg2Vars, robinsonVars, scopeVars>>
    /\ UNCHANGED <<alg1Vars, ufVars, strVars>>

\* martelli_algorithm_2.py, lines 157-175: the multiequations returned are
\* objects of the argument, updated in place.
Compactify2 ==
    /\ compactAlg = 2
    /\ CanCompactify
    /\ \E c \in {compactify_2(CompactArgument)} :
        /\ compacted' = [k \in DOMAIN compacted |->
                            [compacted[k] EXCEPT !.compactified = ListAfter(k, c)]]
                         \o <<Call(c.compactified, "none", c.origin)>>
        /\ compactInput' = ListAfter(0, c)
    /\ UNCHANGED compactAlg
    /\ UNCHANGED <<unifyVars, inferVars, alg3Vars, alg2Vars, robinsonVars, scopeVars>>
    /\ UNCHANGED <<alg1Vars, ufVars, strVars>>

NextCompactify ==
    \/ Compactify3
    \/ Compactify2

\* {a, b}, {c, a}, {d, b}, with no terms.
CompactExample ==
    <<Multiequation({"a", "b"}, <<>>), Multiequation({"c", "a"}, <<>>),
      Multiequation({"d", "b"}, <<>>)>>

InitCompactify ==
    /\ compactAlg \in {2, 3}
    /\ compactInput \in CompactInputs \cup {CompactExample}
    /\ compacted = <<>>
    /\ UnifyIdle
    /\ InferIdle
    /\ Alg3Idle
    /\ Alg2Idle
    /\ RobinsonIdle
    /\ ScopeIdle
    /\ Alg1Idle
    /\ UfIdle
    /\ StrIdle

SpecCompactify == InitCompactify /\ [][NextCompactify]_vars

\* The sets of variables of the multiequations of a list.
Classes(multiequations) == {multiequations[i].vars : i \in DOMAIN multiequations}

\* Both calls were made and neither raised.
CompactedTwice ==
    /\ Len(compacted) >= 2
    /\ compacted[1].exc = "none"
    /\ compacted[2].exc = "none"

\* C19: compactify applied to what compactify returned gives the same sets
\* of variables as the first call, for the compactify of Algorithm 3 and for
\* the compactify of Algorithm 2.
C19_Idempotent ==
    CompactedTwice =>
        Classes(compacted[2].returned) = Classes(compacted[1].returned)

-----------------------------------------------------------------------------
(* type-inference/scope.py: the Scope objects as a list, each a record of    *)
(* its _parent (the position of the parent in the list, 0 for None) and its  *)
(* _symbols (a function from names to TypeSymbol objects); a TypeSymbol      *)
(* object is the number it was made as.                                      *)

\* Largest number of Scope objects.
MaxScopes == 3

Ids == {"a", "b"}

\* The test of line 38 left out: the name is never found.
in_symbols_never(symbols, id) == FALSE

\* Line 38: the name is a key of _symbols.
in_symbols(symbols, id) == id \in DOMAIN symbols

\* Lines 37-41, Scope.create: _symbols after the call, or the exception.
create(symbols, id, symbol) ==
    IF in_symbols(symbols, id)
    THEN [exc |-> "already exists in scope", symbols |-> symbols]
    ELSE [exc |-> "none",
          symbols |-> [name \in DOMAIN symbols \cup {id} |->
                            IF name = id THEN symbol ELSE symbols[name]]]

RECURSIVE lookup(_, _, _)
\* Lines 43-50, Scope.lookup from the scope at position k: the TypeSymbol, or
\* 0 for the exception "not found".
lookup(all, k, id) ==
    IF id \in DOMAIN all[k].symbols THEN all[k].symbols[id]
    ELSE IF all[k].parent # 0 THEN lookup(all, all[k].parent, id)
    ELSE 0

\* Lines 19-21: Scope(parent).
NewScope ==
    /\ Len(scopes) < MaxScopes
    /\ \E parent \in 0..Len(scopes) :
        /\ scopes' = Append(scopes, [parent |-> parent, symbols |-> <<>>])
        /\ scopeCall' = [method |-> "__init__", scope |-> Len(scopes) + 1, id |-> "",
                         exc |-> "none", result |-> 0]
    /\ UNCHANGED symbolCount
    /\ UNCHANGED <<unifyVars, inferVars, alg3Vars, alg2Vars, robinsonVars, compactVars>>
    /\ UNCHANGED <<alg1Vars, ufVars, strVars>>

\* Lines 37-41: create(id) on one of the scopes.
CreateCall ==
    /\ \E k \in DOMAIN scopes, id \in Ids :
        \E c \in {create(scopes[k].symbols, id, symbolCount + 1)} :
            /\ scopes' = [scopes EXCEPT ![k].symbols = c.symbols]
            /\ symbolCount' = IF c.exc = "none" THEN symbolCount + 1 ELSE symbolCount
            /\ scopeCall' = [method |-> "create", scope |-> k, id |-> id,
                             exc |-> c.exc, result |-> 0]
    /\ UNCHANGED <<unifyVars, inferVars, alg3Vars, alg2Vars, robinsonVars, compactVars>>
    /\ UNCHANGED <<alg1Vars, ufVars, strVars>>

\* Lines 43-50: lookup(id) on one of the scopes.
LookupCall ==
    /\ \E k \in DOMAIN scopes, id \in Ids :
        \E symbol \in {lookup(scopes, k, id)} :
            scopeCall' = [method |-> "lookup", scope |-> k, id |-> id,
                          exc |-> IF symbol = 0 THEN "not found" ELSE "none",
                          result |-> symbol]
    /\ UNCHANGED <<scopes, symbolCount>>
    /\ UNCHANGED <<unifyVars, inferVars, alg3Vars, alg2Vars, robinsonVars, compactVars>>
    /\ UNCHANGED <<alg1Vars, ufVars, strVars>>

NextScope ==
    \/ NewScope
    \/ CreateCall
    \/ LookupCall

InitScope ==
    /\ ScopeIdle
    /\ UnifyIdle
    /\ InferIdle
    /\ Alg3Idle
    /\ Alg2Idle
    /\ RobinsonIdle
    /\ CompactIdle
    /\ Alg1Idle
    /\ UfIdle
    /\ StrIdle

SpecScope == InitScope /\ [][NextScope]_vars

RECURSIVE Ancestors(_, _)
\* The positions of the scopes above the scope at position k.
Ancestors(all, k) ==
    IF all[k].parent = 0 THEN {}
    ELSE {all[k].parent} \cup Ancestors(all, all[k].parent)

\* The step is a call of create(id) on the scope at position k.
CreateCalled(k, id) ==
    /\ scopeCall'.method = "create"
    /\ scopeCall'.scope = k
    /\ scopeCall'.id = id

\* What C20 says of a call of create(id) on the scope at position k.
CreateContract(k, id) ==
    IF id \in DOMAIN scopes[k].symbols
    THEN /\ scopeCall'.exc # "none"
         /\ scopes' = scopes
    ELSE /\ scopeCall'.exc = "none"
         /\ \A j \in DOMAIN scopes : j # k => scopes'[j] = scopes[j]
         /\ scopes'[k].parent = scopes[k].parent
         /\ DOMAIN scopes'[k].symbols = DOMAIN scopes[k].symbols \cup {id}
         /\ \A name \in DOMAIN scopes[k].symbols :
                scopes'[k].symbols[name] = scopes[k].symbols[name]
         /\ \A j \in DOMAIN scopes : \A name \in DOMAIN scopes[j].symbols :
                scopes[j].symbols[name] # scopes'[k].symbols[id]
         /\ lookup(scopes', k, id) = scopes'[k].symbols[id]
         /\ \A j \in Ancestors(scopes, k) :
                /\ lookup(scopes', j, id) = lookup(scopes, j, id)
                /\ lookup(scopes', j, id) # lookup(scopes', k, id)

CreateKeepsContract ==
    \A k \in DOMAIN scopes, id \in Ids : CreateCalled(k, id) => CreateContract(k, id)

\* C20: create(name) raises and leaves the tables as they were when the name
\* is in the table of the scope it is called on; otherwise, also when the
\* name is in the table of an ancestor, it puts a new TypeSymbol into the
\* table of that scope only, lookup(name) from that scope then returns the
\* new TypeSymbol and lookup(name) from every ancestor returns what it
\* returned before.
C20_CreateShadows == [][CreateKeepsContract]_vars

\* create(id) has just put a second TypeSymbol under a name that the parent
\* scope has too, and create(id) has raised on a scope in another state.
C20_Witness ==
    /\ scopeCall.method = "create"
    /\ scopeCall.exc = "none"
    /\ \E j \in Ancestors(scopes, scopeCall.scope) :
        /\ scopeCall.id \in DOMAIN scopes[j].symbols
        /\ lookup(scopes, j, scopeCall.id) # lookup(scopes, scopeCall.scope, scopeCall.id)

\* create(id) has raised on a scope that has the name.
C20_WitnessRaised ==
    /\ scopeCall.method = "create"
    /\ scopeCall.exc = "already exists in scope"
    /\ scopeCall.id \in DOMAIN scopes[scopeCall.scope].symbols

-----------------------------------------------------------------------------
(* constructs.py: type_str called with no argument on a type of at most      *)
(* MaxSize nodes, or on a type with more variables than there are letters.   *)

\* v0 -> v1 -> ... -> v26: a function type over 27 variables.
ManyVariables ==
    LET RECURSIVE chain(_)
        chain(k) == IF k = Len(LETTERS) THEN TypeVariable("v" \o ToString(k))
                    ELSE TypeApplication(TypeVariable("v" \o ToString(k)), chain(k + 1))
    IN  chain(0)

\* Type.type_str(): ptv is None and a PolymorphicTypeVar is made.
TypeStr ==
    /\ strType # <<>>
    /\ strResult = NotCalled
    /\ \E r \in {type_str(strType, <<>>)} : strResult' = [str |-> r.str, exc |-> r.exc]
    /\ UNCHANGED strType
    /\ UNCHANGED <<unifyVars, inferVars, alg3Vars, alg2Vars, robinsonVars, scopeVars,
                   compactVars, alg1Vars, ufVars>>

InitStr ==
    /\ strType \in UNION {TypesOfSize(n) : n \in 1..MaxSize}
                    \cup {ManyVariables, TypeList(ManyVariables)}
    /\ strResult = NotCalled
    /\ UnifyIdle
    /\ InferIdle
    /\ Alg3Idle
    /\ Alg2Idle
    /\ RobinsonIdle
    /\ ScopeIdle
    /\ CompactIdle
    /\ Alg1Idle
    /\ UfIdle

SpecStr == InitStr /\ [][TypeStr]_vars

\* C21: type_str of TypeList(T) is type_str of T followed by [], with
\* parentheses around it exactly when T is a function type.
C21_ListRendering ==
    (strResult.exc = "none" /\ isinstance(strType, "TypeList")) =>
        strResult.str = IF isinstance(getattr(strType, "el_type"), "TypeApplication")
                        THEN "(" \o type_str(getattr(strType, "el_type"), <<>>).str \o ")[]"
                        ELSE type_str(getattr(strType, "el_type"), <<>>).str \o "[]"

-----------------------------------------------------------------------------
(* unification/martelli_algorithm_1.py.  An Equation is the pair of its      *)
(* left and its right; Equation objects hash by identity, so a set of them   *)
(* is a list of objects of which pop() takes any.                            *)

\* Largest number of equations in a generated set.
MaxEqs1 == 2

Equation(t1, t2) == <<t1, t2>>

\* Lines 22-28: the variable occurs in one of the equations.
var_occurs_in_equations(var, eqs) ==
    \E k \in DOMAIN eqs : term_occurs(var, eqs[k][1]) \/ term_occurs(var, eqs[k][2])

\* Lines 78-85: left -> right applied to each side of every equation.
substitute_equations(eqs, left, right) ==
    [k \in DOMAIN eqs |-> Equation(substitute(eqs[k][1], left, right),
                                   substitute(eqs[k][2], left, right))]

\* Lines 95-107 of main: g(x2) = x1 and f(x1, h(x1), x2) = f(g(x3), x4, x3).
Alg1Example ==
    <<Equation(Application("g", <<Variable("x2")>>), Variable("x1")),
      Equation(Application("f", <<Variable("x1"), Application("h", <<Variable("x1")>>),
                                  Variable("x2")>>),
               Application("f", <<Application("g", <<Variable("x3")>>), Variable("x4"),
                                  Variable("x3")>>))>>

\* The sets of at most MaxEqs1 equations with at most MaxTermNodes nodes, and
\* the set of main.
Alg1Inputs ==
    {Alg1Example} \cup
    UNION {{[k \in 1..n |-> Equation(M[2 * k - 1], M[2 * k])] : M \in Multisets(2 * n, m)} :
            n \in 0..MaxEqs1, m \in 0..MaxTermNodes}

\* Line 38 has popped the equation at position i of a set that was not empty.
Popped1(i) ==
    /\ status1 = "running"
    /\ i \in DOMAIN equations1

\* Lines 41-45, case (a): t = x becomes x = t.
Swap1 ==
    /\ \E i \in DOMAIN equations1 :
        /\ Popped1(i)
        /\ ~IsVariable(equations1[i][1])
        /\ IsVariable(equations1[i][2])
        /\ equations1' = Append(RemoveAt(equations1, i),
                                Equation(equations1[i][2], equations1[i][1]))
    /\ UNCHANGED <<no_transformation, status1>>
    /\ UNCHANGED <<unifyVars, inferVars, alg3Vars, alg2Vars, robinsonVars, scopeVars,
                   compactVars, ufVars, strVars>>

\* Lines 46-52, case (b): x = x is erased.
Erase1 ==
    /\ \E i \in DOMAIN equations1 :
        /\ Popped1(i)
        /\ IsVariable(equations1[i][1])
        /\ equations1[i][2] = equations1[i][1]
        /\ equations1' = RemoveAt(equations1, i)
    /\ UNCHANGED <<no_transformation, status1>>
    /\ UNCHANGED <<unifyVars, inferVars, alg3Vars, alg2Vars, robinsonVars, scopeVars,
                   compactVars, ufVars, strVars>>

\* Lines 53-65, case (c): two applications are reduced to the equations of
\* their arguments, or the exception is raised.
TermReduction1 ==
    /\ \E i \in DOMAIN equations1 :
        /\ Popped1(i)
        /\ \E left \in {equations1[i][1]}, right \in {equations1[i][2]} :
            /\ ~IsVariable(left)
            /\ ~IsVariable(right)
            /\ IF left[2] # right[2]
               THEN /\ status1' = "Different root function symbols"
                    /\ equations1' = RemoveAt(equations1, i)
               ELSE IF arity(left) # arity(right)
               THEN /\ status1' = "Different function arities"
                    /\ equations1' = RemoveAt(equations1, i)
               ELSE /\ equations1' = RemoveAt(equations1, i)
                            \o [k \in DOMAIN left[3] |-> Equation(left[3][k], right[3][k])]
                    /\ UNCHANGED status1
    /\ UNCHANGED no_transformation
    /\ UNCHANGED <<unifyVars, inferVars, alg3Vars, alg2Vars, robinsonVars, scopeVars,
                   compactVars, ufVars, strVars>>

\* Lines 66-86, case (d): x = t where x occurs in another equation; x is
\* replaced by t everywhere else and the equation goes back into the set, or
\* the occurs check fails.
Eliminate1 ==
    /\ \E i \in DOMAIN equations1 :
        /\ Popped1(i)
        /\ \E left \in {equations1[i][1]}, right \in {equations1[i][2]},
              rest \in {RemoveAt(equations1, i)} :
            /\ IsVariable(left)
            /\ right # left
            /\ var_occurs_in_equations(left, rest \o no_transformation)
            /\ IF term_occurs(left, right)
               THEN /\ status1' = "occurs"
                    /\ equations1' = rest
                    /\ UNCHANGED no_transformation
               ELSE /\ equations1' = Append(substitute_equations(rest, left, right),
                                            equations1[i])
                    /\ no_transformation' =
                            substitute_equations(no_transformation, left, right)
                    /\ UNCHANGED status1
    /\ UNCHANGED <<unifyVars, inferVars, alg3Vars, alg2Vars, robinsonVars, scopeVars,
                   compactVars, ufVars, strVars>>

\* Lines 87-89: none of the cases (a) to (d) applies.
Keep1 ==
    /\ \E i \in DOMAIN equations1 :
        /\ Popped1(i)
        /\ \E left \in {equations1[i][1]}, right \in {equations1[i][2]},
              rest \in {RemoveAt(equations1, i)} :
            /\ IsVariable(left)
            /\ right # left
            /\ ~var_occurs_in_equations(left, rest \o no_transformation)
            /\ equations1' = rest
            /\ no_transformation' = Append(no_transformation, equations1[i])
    /\ UNCHANGED status1
    /\ UNCHANGED <<unifyVars, inferVars, alg3Vars, alg2Vars, robinsonVars, scopeVars,
                   compactVars, ufVars, strVars>>

\* Lines 37 and 91: the set is empty and no_transformation is returned.
Return1 ==
    /\ status1 = "running"
    /\ equations1 = <<>>
    /\ status1' = "returned"
    /\ UNCHANGED <<equations1, no_transformation>>
    /\ UNCHANGED <<unifyVars, inferVars, alg3Vars, alg2Vars, robinsonVars, scopeVars,
                   compactVars, ufVars, strVars>>

NextAlg1 ==
    \/ Swap1
    \/ Erase1
    \/ TermReduction1
    \/ Eliminate1
    \/ Keep1
    \/ Return1

InitAlg1 ==
    /\ equations1 \in Alg1Inputs
    /\ no_transformation = <<>>
    /\ status1 = "running"
    /\ UnifyIdle
    /\ InferIdle
    /\ Alg3Idle
    /\ Alg2Idle
    /\ RobinsonIdle
    /\ ScopeIdle
    /\ CompactIdle
    /\ UfIdle
    /\ StrIdle

SpecAlg1 == InitAlg1 /\ [][NextAlg1]_vars

\* The equations are in solved form: every left side is a variable that
\* occurs in no other equation and not in its own right side.
SolvedForm(eqs) ==
    \A i \in DOMAIN eqs :
        /\ IsVariable(eqs[i][1])
        /\ ~term_occurs(eqs[i][1], eqs[i][2])
        /\ \A j \in DOMAIN eqs : j # i =>
            /\ ~term_occurs(eqs[i][1], eqs[j][1])
            /\ ~term_occurs(eqs[i][1], eqs[j][2])

\* C22: when the unify of Algorithm 1 returns, the equations it returns are
\* in solved form; so x = f(x) is never among them.
C22_SolvedForm ==
    status1 = "returned" => SolvedForm(no_transformation)

-----------------------------------------------------------------------------
(* The groups compactify is to merge.                                        *)

RECURSIVE Reach(_, _)
\* The positions of the multiequations joined to those of S by a chain of
\* multiequations in which each shares a variable with the next.
Reach(multiequations, S) ==
    LET grown == S \cup {j \in DOMAIN multiequations :
                            \E i \in S : multiequations[i].vars \cap multiequations[j].vars # {}}
    IN  IF grown = S THEN S ELSE Reach(multiequations, grown)

Groups(multiequations) == {Reach(multiequations, {i}) : i \in DOMAIN multiequations}

\* The multiequation a group is to become: the union of the variables and
\* the terms of all its members.
Merged(multiequations, G) ==
    Multiequation(UNION {multiequations[i].vars : i \in G},
                  Concat([i \in DOMAIN multiequations |->
                            IF i \in G THEN multiequations[i].terms ELSE <<>>]))

\* C23: the compactify of Algorithm 3 returns, whatever the iteration order
\* of the sets, exactly one multiequation for each group of multiequations
\* joined by shared variables, with the variables and the terms of the whole
\* group; {a, b}, {c, a}, {d, b} become the one class {a, b, c, d}.
C23_MergesGroups ==
    (compactAlg = 3 /\ compacted # <<>>) =>
        /\ compacted[1].exc = "none"
        /\ Len(compacted[1].compactified) = Cardinality(Groups(compactInput))
        /\ \A G \in Groups(compactInput) :
            \E i \in DOMAIN compacted[1].compactified :
                compacted[1].compactified[i] = Merged(compactInput, G)

-----------------------------------------------------------------------------
(* unification/util.py: a UnionFind object on its own.  ufParent is the dict *)
(* _parent as the list of its keys, in insertion order, and the function     *)
(* from the keys to their parents.                                           *)

UfNames == {"a", "b", "c", "d"}

\* Largest number of pairs union is called on.
MaxUnions == 3

RECURSIVE find_compress(_, _, _)
\* Lines 69-74: find(var) with the path compression it does on the way back:
\* the root and the parents after the call, or "RecursionError" with the
\* parents as they were when the parents above var form a cycle; `fuel` is
\* the number of links still to follow.
find_compress(parent, var, fuel) ==
    IF parent[var] = var THEN [root |-> var, parent |-> parent]
    ELSE IF fuel = 0 THEN [root |-> "RecursionError", parent |-> parent]
    ELSE CHOOSE result \in
            {IF above.root = "RecursionError"
             THEN [root |-> "RecursionError", parent |-> parent]
             ELSE [root |-> above.root, parent |-> [above.parent EXCEPT ![var] = above.root]] :
                above \in {find_compress(parent, parent[var], fuel - 1)}} : TRUE

RECURSIVE get_sets_compress(_, _, _)
\* Lines 90-99: get_sets over the keys still to visit; `groups` is the dict
\* built so far, a function from roots to sets.  The sets of the groups and
\* the parents after the call, or the exception with the parents as the
\* calls of find before it left them.
get_sets_compress(parent, keys, groups) ==
    IF keys = <<>>
    THEN [exc |-> "none", sets |-> {groups[r] : r \in DOMAIN groups}, parent |-> parent]
    ELSE CHOOSE result \in
            {IF found.root = "RecursionError"
             THEN [exc |-> "RecursionError", sets |-> {}, parent |-> found.parent]
             ELSE get_sets_compress(found.parent, Tail(keys),
                    [r \in DOMAIN groups \cup {found.root} |->
                        IF r # found.root THEN groups[r]
                        ELSE IF r \in DOMAIN groups THEN groups[r] \cup {keys[1]}
                        ELSE {keys[1]}]) :
                found \in {find_compress(parent, keys[1], Cardinality(DOMAIN parent))}} : TRUE

\* get_sets has not been called since the last union.
NoSets == [exc |-> "not called", sets |-> {}]

\* Lines 76-82: union(var1, var2) on two of the names.
UfUnion ==
    /\ ufParent # <<>>
    /\ Cardinality(ufUnioned) < MaxUnions
    /\ \E var1, var2 \in UfNames :
        /\ ufParent' = [ufParent EXCEPT !.parent = union(ufParent.parent, var1, var2)]
        /\ ufUnioned' = ufUnioned \cup {{var1, var2}}
    /\ ufSets' = NoSets
    /\ UNCHANGED <<unifyVars, inferVars, alg3Vars, alg2Vars, robinsonVars, scopeVars,
                   compactVars, alg1Vars, strVars>>

\* Lines 69-74: find(var) on one of the names.
UfFind ==
    /\ ufParent # <<>>
    /\ \E var \in UfNames :
        \E found \in {find_compress(ufParent.parent, var, Cardinality(UfNames))} :
            ufParent' = [ufParent EXCEPT !.parent = found.parent]
    /\ UNCHANGED <<ufUnioned, ufSets>>
    /\ UNCHANGED <<unifyVars, inferVars, alg3Vars, alg2Vars, robinsonVars, scopeVars,
                   compactVars, alg1Vars, strVars>>

\* Lines 90-99: get_sets().
UfGetSets ==
    /\ ufParent # <<>>
    /\ \E got \in {get_sets_compress(ufParent.parent, ufParent.keys, <<>>)} :
        /\ ufParent' = [ufParent EXCEPT !.parent = got.parent]
        /\ ufSets' = [exc |-> got.exc, sets |-> got.sets]
    /\ UNCHANGED ufUnioned
    /\ UNCHANGED <<unifyVars, inferVars, alg3Vars, alg2Vars, robinsonVars, scopeVars,
                   compactVars, alg1Vars, strVars>>

NextUf ==
    \/ UfUnion
    \/ UfFind
    \/ UfGetSets

\* Lines 65-67: UnionFind(vars), the names iterated in any order.
InitUf ==
    /\ \E keys \in Perms(UfNames) :
        ufParent = [keys |-> keys, parent |-> [var \in UfNames |-> var]]
    /\ ufUnioned = {}
    /\ ufSets = NoSets
    /\ UnifyIdle
    /\ InferIdle
    /\ Alg3Idle
    /\ Alg2Idle
    /\ RobinsonIdle
    /\ ScopeIdle
    /\ CompactIdle
    /\ Alg1Idle
    /\ StrIdle

SpecUf == InitUf /\ [][NextUf]_vars

RECURSIVE Connected(_, _)
\* The names joined to those of S by a chain of the pairs.
Connected(S, pairs) ==
    LET grown == S \cup UNION {pair \in pairs : pair \cap S # {}}
    IN  IF grown = S THEN S ELSE Connected(grown, pairs)

\* C24: get_sets, called after any calls of union, returns the partition of
\* the names into the classes joined by chains of the pairs union was called
\* on; so names that a call of union joined are never in two sets later.
C24_ClosurePartition ==
    ufSets.exc # "not called" =>
        /\ ufSets.exc = "none"
        /\ ufSets.sets = {Connected({var}, ufUnioned) : var \in UfNames}

\* C25: when solve_multiequations of Algorithm 2 returns T, the variable
\* sets of the multiequations of T are pairwise disjoint, and so no
\* multiequation is in T twice.
C25_DisjointT2 ==
    solveStatus2 = "returned" =>
        \A i, j \in DOMAIN T2 : i # j =>
            /\ T2[i].vars \cap T2[j].vars = {}
            /\ T2[i] # T2[j]

-----------------------------------------------------------------------------
(* The claims about the equations of one definition.                         *)

\* The definition whose equations have been generated, when the generator
\* returned them.
Generated == inferStatus = "solve"

\* The frame of the parameters of definition d, which is walked when the
\* counter of the generator is `first`: the k-th parameter has the k-th
\* variable after the one of the function.
ParamFrame(d, first) ==
    [k \in DOMAIN d[3] |-> <<d[3][k], TypeVariable("t" \o ToString(first + k))>>]

\* The scope inside definition d when the global scope is `global`.
BodyScope(d, first, global) == <<ParamFrame(d, first), global>>

\* C26: for a definition whose body is `let x = v in b`, the generator
\* emits tau(x) = tau(v), where tau(x) is the fresh variable of the child
\* scope and tau(v) is the type v has in the child scope: the cell the child
\* scope resolves v to when v is an identifier.
C26_LetEquation ==
    (Generated /\ defIndex = 1 /\ program[1][4][1] = "LetExpr") =>
        LET d == program[1]
            first == NumBuiltins
            let == d[4]
            var_type == TypeVariable("t" \o ToString(first + Len(d[3]) + 2))
            inside_let == <<<<<<let[2], var_type>>>>>> \o BodyScope(d, first, globalScope)
            val_type == IF let[3][1] = "IdExpr" THEN scope_lookup(inside_let, let[3][2])
                        ELSE TypeVariable("t" \o ToString(first + Len(d[3]) + 3))
        IN  generated[Len(generated) - 2] = <<var_type, val_type>>

\* The variable the generator makes when its counter is n.
Fresh(n) == TypeVariable("t" \o ToString(n))

RECURSIVE NestRight(_, _)
\* TyApp(types[1], TyApp(types[2], ... TyApp(types[k], ret))).
NestRight(types, ret) ==
    IF types = <<>> THEN ret
    ELSE TypeApplication(Head(types), NestRight(Tail(types), ret))

\* The argument types of a function whose parameters have the variables
\* Fresh(first + 1) .. Fresh(first + k): unit when k = 0.
ArgTypes(first, k) ==
    IF k = 0 THEN <<TypeConstant("unit")>> ELSE [i \in 1..k |-> Fresh(first + i)]

\* The type of expression e in `scope` when the first variable made in its
\* walk is Fresh(n).
TypeIn(e, scope, n) ==
    IF e[1] = "IdExpr" THEN scope_lookup(scope, e[2]) ELSE Fresh(n)

\* C27: the last equation of a definition f p1 ... pk = body is
\* tau(f) = TyApp(tau(p1), ... TyApp(tau(pk), tau(body))), nested
\* right-to-left in parameter order, with tau(f) and the tau(pi) distinct
\* variables made for this definition, and unit as the argument when k = 0;
\* likewise the equation of a body that is an anonymous function.
C27_FunctionEquation ==
    (Generated /\ defIndex = 1) =>
        LET d == program[1]
            k == Len(d[3])
            first == NumBuiltins
            inside == BodyScope(d, first, globalScope)
            fn == d[4]
            kf == Len(fn[2])
            fn_first == first + k + 1
            inside_fn == <<[i \in 1..kf |-> <<fn[2][i], Fresh(fn_first + i)>>]>> \o inside
        IN  /\ generated[Len(generated)]
                = <<Fresh(first), NestRight(ArgTypes(first, k), TypeIn(d[4], inside, first + k + 1))>>
            /\ scope_lookup(<<globalScope>>, d[2]) = Fresh(first)
            /\ \A i \in 0..k : \A j \in DOMAIN create_global_scope :
                    Fresh(first + i)[2] \notin TypeVars(create_global_scope[j][2])
            /\ fn[1] = "FnExpr" =>
                    generated[Len(generated) - 1]
                        = <<Fresh(fn_first),
                            NestRight(ArgTypes(fn_first, kf),
                                      TypeIn(fn[3], inside_fn, fn_first + kf + 1))>>

\* The equations of `fun f x y = fn a b => a;` have been generated.
C27_Witness ==
    /\ Generated
    /\ program = <<FunctionDefinition("f", <<"x", "y">>, FnExpr(<<"a", "b">>, IdExpr("a")))>>
    /\ Len(generated) = 2

\* The one type cell of identifier id inside the first definition d of a
\* program: the variable of the parameter of that name, else the variable
\* of the function, else the type of the builtin.
Cell(d, id) ==
    IF \E i \in DOMAIN d[3] : d[3][i] = id
    THEN Fresh(NumBuiltins + CHOOSE i \in DOMAIN d[3] : d[3][i] = id)
    ELSE IF id = d[2] THEN Fresh(NumBuiltins)
    ELSE create_global_scope[CHOOSE j \in DOMAIN create_global_scope :
                                create_global_scope[j][1] = id][2]

\* The equations of `generated` that have side as a side.
Using(side) ==
    {i \in DOMAIN generated : generated[i][1] = side \/ generated[i][2] = side}

\* C28: every occurrence of an identifier in one definition has the type of
\* the one cell the scope holds for it, not a copy: comparing two
\* identifiers equates their cells, a call of an identifier uses its cell as
\* the function's type, two calls of hd share hd's element variable, and
\* the definition that uses hd on an int list and on a bool list is given
\* no type.
C28_Monomorphic ==
    /\ (Generated /\ defIndex = 1) =>
        LET d == program[1]
            body == d[4]
            symbol == Fresh(NumBuiltins + Len(d[3]) + 1)
        IN  /\ (body[1] = "BinaryExpr" /\ body[2] = "=="
                    /\ body[3][1] = "IdExpr" /\ body[4][1] = "IdExpr") =>
                generated[2] = <<Cell(d, body[3][2]), Cell(d, body[4][2])>>
            /\ (body[1] = "CallExpr" /\ body[2][1] = "IdExpr" /\ body[3][1] = "IdExpr") =>
                generated[1]
                    = <<Cell(d, body[2][2]), TypeApplication(Cell(d, body[3][2]), symbol)>>
            /\ program = HdTwice =>
                Cardinality(Using(TypeApplication(TypeList(Fresh(0)), Fresh(0)))) = 2
    /\ (program = HdTwice /\ InferEnded) =>
        /\ inferStatus # "done"
        /\ printed = <<>>

\* Type inference of the definition with two uses of hd has ended.
C28_Witness ==
    /\ program = HdTwice
    /\ InferEnded
    /\ Cardinality(Using(TypeApplication(TypeList(Fresh(0)), Fresh(0)))) = 2

\* A step of type_infer leaves every cell the global scope already has as
\* it is, but for the cell of the function being defined when its solved
\* type is stored.
FrameKept ==
    \A i \in DOMAIN globalScope :
        \/ /\ i \in DOMAIN globalScope'
           /\ globalScope'[i] = globalScope[i]
        \/ /\ inferStatus = "solve"
           /\ globalScope[i][1] = program[defIndex][2]

\* C30: running type_infer on a definition changes no type cell of the
\* global scope other than the cell of the function being defined: the
\* types of the builtins and of the functions defined before are the same
\* before and after.
C30_GlobalFrame == [][FrameKept]_vars

\* type_infer has run on the definition with two uses of hd: the function
\* has its cell, after the cells of the builtins.
C30_Witness ==
    /\ program = HdTwice
    /\ InferEnded
    /\ Len(globalScope) = NumBuiltins + 1
    /\ globalScope[Len(globalScope)][1] = "f"
    /\ \A i \in DOMAIN create_global_scope : globalScope[i] = create_global_scope[i]

====
